---- MODULE Spec2Model ----
(***************************************************************************)
(* Model of the booking calendar of src/calendar.tsx: the Firestore        *)
(* collection 'calendarEvents' (store), and for every client the React     *)
(* state of the Calendar component (events, statusFilter) together with    *)
(* its handlers.  A handler reads the client's snapshot `events`, issues   *)
(* its writes and awaits them; the store applies a write atomically, so    *)
(* the order of the model's steps is the commit order of the store.  A     *)
(* snapshot reaches a client only through the onSnapshot step.             *)
(*                                                                         *)
(* Instants are minutes after local midnight of the calendar day.  The     *)
(* strings the handlers persist are kept as the clock reading HHMM         *)
(* (14:30 is 1430), which is what isoLocalDate prints and Date parses.     *)
(*                                                                         *)
(* The variable `note` holds the notes page of src/note.tsx (and of its    *)
(* copy with anonymous sign-in in src/calendar.tsx): the collection        *)
(* 'teacherNotes', the uploaded objects, and the React state notes and     *)
(* selected of the Note component.  `form` is the editor of that page: the *)
(* fields title, body, file, saving, progress, uploadError and the         *)
(* handleSave call in flight.  `life` holds, for every mounted component,  *)
(* its snapshot listener (registered by the mount effect, released by the  *)
(* cleanup).  `backend` says whether Firestore accepts or rejects calls.   *)
(***************************************************************************)
EXTENDS Integers, Sequences, FiniteSets, TLC

VARIABLES store, events, statusFilter, nextUid, last, steps, note, form,
          life, backend

vars == <<store, events, statusFilter, nextUid, last, steps, note, form,
          life, backend>>

\* ------------------------------------------------------------------ bounds
MaxUid == 2
MaxSteps == 3
MaxSlotText == 16
MaxWindow == 120
MaxNotes == 2

Clients == {"A", "B"}

\* ------------------------------------------------------- program constants
DEFAULT_TIMED_MINUTES == 30
MinSlotMinutes == 5
DefaultSlotMinutes == 15
defaultTimedEventDuration == 60
defaultAllDayEventDuration == 1440

Undefined == "undefined"
NoEnd == -1

PlainColor == "#42a5f5"
SlotColor == "#43a047"
BookedColor == "#f6c343"
MAX_MB == 5
MAX_MB_SignIn == 10
DefaultSlotTitle == "Conference Slot"

\* ----------------------------------------------------------------- helpers
Max(a, b) == IF a >= b THEN a ELSE b

Range(s) == {s[i] : i \in DOMAIN s}

\* isoLocalDate(date): the local clock reading of an instant.
isoLocalDate(t) == (t \div 60) * 100 + (t % 60)

\* new Date(str).getTime(): the instant of a persisted clock reading.
getTime(str) == (str \div 100) * 60 + (str % 100)

addMinutes(t, mins) == t + mins

\* Four slips of the comparison: one bound made inclusive, both bounds
\* made inclusive, a missing end read as one minute after the start, and a
\* missing end read as the default duration of a timed event.
overlapsOneSided(a, b) ==
    LET aStart == getTime(a.start)
        aEnd   == IF a.end # NoEnd THEN getTime(a.end) ELSE aStart
        bStart == getTime(b.start)
        bEnd   == IF b.end # NoEnd THEN getTime(b.end) ELSE bStart
    IN  aStart < bEnd /\ bStart <= aEnd

overlapsClosed(a, b) ==
    LET aStart == getTime(a.start)
        aEnd   == IF a.end # NoEnd THEN getTime(a.end) ELSE aStart
        bStart == getTime(b.start)
        bEnd   == IF b.end # NoEnd THEN getTime(b.end) ELSE bStart
    IN  aStart <= bEnd /\ bStart <= aEnd

overlapsEpsilon(a, b) ==
    LET aStart == getTime(a.start)
        aEnd   == IF a.end # NoEnd THEN getTime(a.end) ELSE aStart + 1
        bStart == getTime(b.start)
        bEnd   == IF b.end # NoEnd THEN getTime(b.end) ELSE bStart + 1
    IN  aStart < bEnd /\ bStart < aEnd

overlapsDefaultDuration(a, b) ==
    LET aStart == getTime(a.start)
        aEnd   == IF a.end # NoEnd THEN getTime(a.end)
                  ELSE aStart + defaultTimedEventDuration
        bStart == getTime(b.start)
        bEnd   == IF b.end # NoEnd THEN getTime(b.end)
                  ELSE bStart + defaultTimedEventDuration
    IN  aStart < bEnd /\ bStart < aEnd

overlaps(a, b) ==
    LET aStart == getTime(a.start)
        aEnd   == IF a.end # NoEnd THEN getTime(a.end) ELSE aStart
        bStart == getTime(b.start)
        bEnd   == IF b.end # NoEnd THEN getTime(b.end) ELSE bStart
    IN  aStart < bEnd /\ bStart < aEnd

\* ------------------------------------------------------- snapshot listener
\* query(eventsRef, orderBy('start')): documents by start, ties by id.
Before(d1, d2) == d1.start < d2.start \/ (d1.start = d2.start /\ d1.id < d2.id)

RECURSIVE SortByStart(_)
SortByStart(S) ==
    IF S = {} THEN <<>>
    ELSE LET first == CHOOSE d \in S : \A o \in S \ {d} : Before(d, o)
         IN  <<first>> \o SortByStart(S \ {first})

\* The list the onSnapshot callback builds from snap.docs.
SnapshotList(st) == SortByStart({st[i] : i \in DOMAIN st})

NoWrites == <<>>

\* A callback that adds the pushed documents to the list it already has.
onSnapshotMerging(c) ==
    /\ life.cal[c].listeners > 0
    /\ events[c] # SnapshotList(store)
    /\ events' = [events EXCEPT ![c] =
          @ \o SelectSeq(SnapshotList(store),
                         LAMBDA d : \A i \in DOMAIN events[c] : events[c][i].id # d.id)]
    /\ last' = [handler |-> "onSnapshot", client |-> c, writes |-> NoWrites]
    /\ UNCHANGED <<store, statusFilter, nextUid>>

\* The callback runs only for a registered listener.
onSnapshot(c) ==
    /\ life.cal[c].listeners > 0
    /\ events[c] # SnapshotList(store)
    /\ events' = [events EXCEPT ![c] = SnapshotList(store)]
    /\ last' = [handler |-> "onSnapshot", client |-> c, writes |-> NoWrites]
    /\ UNCHANGED <<store, statusFilter, nextUid>>

\* --------------------------------------------------------- store adapter
\* batch.set for every new event, committed as one batch.
saveEvents(st, newEvents) ==
    IF backend = "down" THEN st ELSE
    [i \in DOMAIN st \cup {ev.id : ev \in Range(newEvents)} |->
        IF \E ev \in Range(newEvents) : ev.id = i
        THEN CHOOSE ev \in Range(newEvents) : ev.id = i
        ELSE st[i]]

\* A conditional write: the patch of a booking is applied only to a
\* document that is still available.
updateEventIfAvailable(st, id, patch) ==
    IF id \in DOMAIN st /\ ("status" \in DOMAIN patch => st[id].status = "available")
    THEN [st EXCEPT ![id] =
            [f \in DOMAIN st[id] |->
                IF f \in DOMAIN patch THEN patch[f] ELSE st[id][f]]]
    ELSE st

\* setDoc(..., {merge: true}): the patch creates the document it does not
\* find.
updateEventUpsert(st, id, patch) ==
    [i \in DOMAIN st \cup {id} |->
        IF i # id THEN st[i]
        ELSE [f \in {"id", "title", "start", "end", "allDay", "color", "status",
                     "studentName"} |->
                IF f \in DOMAIN patch THEN patch[f]
                ELSE IF id \in DOMAIN st THEN st[id][f]
                ELSE IF f = "id" THEN id
                ELSE IF f \in {"start", "end"} THEN NoEnd
                ELSE IF f = "allDay" THEN FALSE
                ELSE Undefined]]

\* updateDoc merges the patch into an existing document and is rejected
\* when the document does not exist.
updateEvent(st, id, patch) ==
    IF id \in DOMAIN st /\ backend = "up"
    THEN [st EXCEPT ![id] =
            [f \in DOMAIN st[id] |->
                IF f \in DOMAIN patch THEN patch[f] ELSE st[id][f]]]
    ELSE st

\* A soft delete: the document stays, without status and student.
removeEventSoft(st, id) ==
    IF id \in DOMAIN st
    THEN [st EXCEPT ![id] = [st[id] EXCEPT !.status = Undefined,
                                           !.studentName = Undefined]]
    ELSE st

removeEvent(st, id) ==
    IF backend = "down" THEN st ELSE [i \in DOMAIN st \ {id} |-> st[i]]

\* ------------------------------------------------------- slot generation
\* parseInt(slotMinStr, 10) of what the prompt returned: an integer text,
\* a text with no leading integer, or nothing (cancel / empty).
parseInt(str) ==
    IF str.kind = "int" THEN [nan |-> FALSE, val |-> str.val]
    ELSE [nan |-> TRUE, val |-> 0]

\* Math.max(5, parseInt(prompt(...) || '15', 10) || 15)
slotMinOf(slotMinStr) ==
    LET text == IF slotMinStr.kind = "empty"
                THEN [kind |-> "int", val |-> DefaultSlotMinutes]
                ELSE slotMinStr
        p == parseInt(text)
        n == IF p.nan \/ p.val = 0 THEN DefaultSlotMinutes ELSE p.val
    IN  Max(MinSlotMinutes, n)

slotCandidate(id, slotTitle, t, t2) ==
    [id |-> id, title |-> slotTitle, start |-> isoLocalDate(t),
     end |-> isoLocalDate(t2), allDay |-> FALSE, color |-> SlotColor,
     status |-> "available", studentName |-> Undefined]

\* Variants of the loop with a slip: the candidate after a dropped one is
\* retried one minimum slot later, the last candidate that ends exactly on
\* the window end is lost, the trailing candidate is cut to fit.
RECURSIVE slotLoopShifting(_, _, _, _, _, _)
slotLoopShifting(t, end, slotMin, evs, id, slotTitle) ==
    IF ~(t < end) THEN <<>>
    ELSE LET t2 == t + slotMin IN
         IF t2 > end THEN <<>>
         ELSE LET candidate == slotCandidate(id, slotTitle, t, t2)
                  hasConflict == \E i \in DOMAIN evs : overlaps(evs[i], candidate)
              IN  IF ~hasConflict
                  THEN <<candidate>> \o
                       slotLoopShifting(t2, end, slotMin, evs, id + 1, slotTitle)
                  ELSE slotLoopShifting(t + MinSlotMinutes, end, slotMin, evs,
                                        id + 1, slotTitle)

RECURSIVE slotLoopStrictEnd(_, _, _, _, _, _)
slotLoopStrictEnd(t, end, slotMin, evs, id, slotTitle) ==
    IF ~(t < end) THEN <<>>
    ELSE LET t2 == t + slotMin IN
         IF t2 >= end THEN <<>>
         ELSE LET candidate == slotCandidate(id, slotTitle, t, t2)
                  hasConflict == \E i \in DOMAIN evs : overlaps(evs[i], candidate)
                  rest == slotLoopStrictEnd(t2, end, slotMin, evs, id + 1, slotTitle)
              IN  IF ~hasConflict THEN <<candidate>> \o rest ELSE rest

RECURSIVE slotLoopTruncating(_, _, _, _, _, _)
slotLoopTruncating(t, end, slotMin, evs, id, slotTitle) ==
    IF ~(t < end) THEN <<>>
    ELSE LET t2 == IF t + slotMin > end THEN end ELSE t + slotMin
             candidate == slotCandidate(id, slotTitle, t, t2)
             hasConflict == \E i \in DOMAIN evs : overlaps(evs[i], candidate)
             rest == slotLoopTruncating(t2, end, slotMin, evs, id + 1, slotTitle)
         IN  IF ~hasConflict THEN <<candidate>> \o rest ELSE rest

\* Two more slips: the new candidate is put in front of the list, the
\* overlap filter is left out.
RECURSIVE slotLoopReversed(_, _, _, _, _, _)
slotLoopReversed(t, end, slotMin, evs, id, slotTitle) ==
    IF ~(t < end) THEN <<>>
    ELSE LET t2 == t + slotMin IN
         IF t2 > end THEN <<>>
         ELSE LET candidate == slotCandidate(id, slotTitle, t, t2)
                  hasConflict == \E i \in DOMAIN evs : overlaps(evs[i], candidate)
                  rest == slotLoopReversed(t2, end, slotMin, evs, id + 1, slotTitle)
              IN  IF ~hasConflict THEN rest \o <<candidate>> ELSE rest

RECURSIVE slotLoopUnfiltered(_, _, _, _, _, _)
slotLoopUnfiltered(t, end, slotMin, evs, id, slotTitle) ==
    IF ~(t < end) THEN <<>>
    ELSE LET t2 == t + slotMin IN
         IF t2 > end THEN <<>>
         ELSE <<slotCandidate(id, slotTitle, t, t2)>> \o
              slotLoopUnfiltered(t2, end, slotMin, evs, id + 1, slotTitle)

\* The for loop of generateTimeSlots: one uid per candidate, a candidate
\* is pushed unless it overlaps an event of the snapshot.
RECURSIVE slotLoop(_, _, _, _, _, _)
slotLoop(t, end, slotMin, evs, id, slotTitle) ==
    IF ~(t < end) THEN <<>>
    ELSE LET t2 == t + slotMin IN
         IF t2 > end THEN <<>>
         ELSE LET candidate == slotCandidate(id, slotTitle, t, t2)
                  hasConflict == \E i \in DOMAIN evs : overlaps(evs[i], candidate)
                  rest == slotLoop(t2, end, slotMin, evs, id + 1, slotTitle)
              IN  IF ~hasConflict THEN <<candidate>> \o rest ELSE rest

\* Number of uid() calls of the loop.
RECURSIVE slotLoopUids(_, _, _)
slotLoopUids(t, end, slotMin) ==
    IF ~(t < end) \/ t + slotMin > end THEN 0
    ELSE 1 + slotLoopUids(t + slotMin, end, slotMin)

generateTimeSlots(c, dateStr, start, end, slotMinStr, slotTitleStr) ==
    LET slotMin == slotMinOf(slotMinStr)
        slotTitle == IF slotTitleStr = Undefined THEN DefaultSlotTitle
                     ELSE slotTitleStr
        invalid == start.nan \/ end.nan \/ end.min <= start.min
        created == IF dateStr = Undefined \/ invalid THEN <<>>
                   ELSE slotLoop(start.min, end.min, slotMin, events[c],
                                 nextUid, slotTitle)
        used    == IF dateStr = Undefined \/ invalid THEN 0
                   ELSE slotLoopUids(start.min, end.min, slotMin)
    IN  /\ store' = IF created # <<>> THEN saveEvents(store, created) ELSE store
        /\ nextUid' = nextUid + used
        /\ last' = [handler |-> "generateTimeSlots", client |-> c,
                    dateStr |-> dateStr, start |-> start, end |-> end,
                    slotMinStr |-> slotMinStr, slotMin |-> slotMin,
                    created |-> created,
                    outcome |-> IF dateStr = Undefined THEN "cancelled"
                                ELSE IF invalid THEN "invalid"
                                ELSE IF created = <<>> THEN "none"
                                ELSE "created",
                    writes |-> IF created # <<>>
                               THEN <<[op |-> "batch", docs |-> created]>>
                               ELSE NoWrites]
        /\ UNCHANGED <<events, statusFilter>>

\* ------------------------------------------------------ event creation
plainEvent(id, title, startStr, endStr, allDay) ==
    [id |-> id, title |-> title, start |-> startStr, end |-> endStr,
     allDay |-> allDay, color |-> PlainColor, status |-> Undefined,
     studentName |-> Undefined]

\* Shared shape of the three handlers that prompt for a title and save one
\* plain event; an empty or cancelled prompt returns before any write.
createPlain(name, c, title, startStr, endStr, allDay) ==
    LET ev == plainEvent(nextUid, title, startStr, endStr, allDay) IN
    /\ store' = IF title = Undefined THEN store ELSE saveEvents(store, <<ev>>)
    /\ nextUid' = IF title = Undefined THEN nextUid ELSE nextUid + 1
    /\ last' = [handler |-> name, client |-> c, title |-> title,
                outcome |-> IF title = Undefined THEN "cancelled" ELSE "created",
                writes |-> IF title = Undefined THEN NoWrites
                           ELSE <<[op |-> "batch", docs |-> <<ev>>]>>]
    /\ UNCHANGED <<events, statusFilter>>

\* select callback: info.startStr / info.endStr of a timed selection.
handleSelect(c, title, info) ==
    createPlain("handleSelect", c, title,
                isoLocalDate(info.start), isoLocalDate(info.end), info.allDay)

\* dateClick callback: an all-day click stores the bare date and no end,
\* a timed click stores [date, date + DEFAULT_TIMED_MINUTES).
handleDateClick(c, title, info) ==
    IF info.allDay
    THEN createPlain("handleDateClick", c, title, isoLocalDate(0), NoEnd, TRUE)
    ELSE createPlain("handleDateClick", c, title, isoLocalDate(info.date),
                     isoLocalDate(addMinutes(info.date, DEFAULT_TIMED_MINUTES)),
                     FALSE)

\* "Add Event Today" button: start is todayStr, no end.
addEventToday(c, title) ==
    createPlain("addEventToday", c, title, isoLocalDate(0), NoEnd, TRUE)

\* --------------------------------------------------------------- display
filteredEvents(c) ==
    IF statusFilter[c] = "all" THEN events[c]
    ELSE SelectSeq(events[c], LAMBDA e : e.status = statusFilter[c])

setStatusFilter(c, v) ==
    /\ statusFilter[c] # v
    /\ statusFilter' = [statusFilter EXCEPT ![c] = v]
    /\ last' = [handler |-> "setStatusFilter", client |-> c, writes |-> NoWrites]
    /\ UNCHANGED <<store, events, nextUid>>

\* ----------------------------------------------------- booking / deleting
\* events.find((e) => e.id === evId)
hasEvent(evs, evId) == \E i \in DOMAIN evs : evs[i].id = evId

findEvent(evs, evId) == evs[CHOOSE i \in DOMAIN evs : evs[i].id = evId]

\* A conflict check that looks at the student only when the slot itself is
\* already taken.
bookingConflictSameSlot(evs, candidate, name) ==
    \E i \in DOMAIN evs :
        /\ evs[i].status = "booked"
        /\ evs[i].studentName = name
        /\ evs[i].id = candidate.id

\* events.some(e => e.status === 'booked' && e.studentName === name
\*                  && overlaps(e, candidate))
bookingConflict(evs, candidate, name) ==
    \E i \in DOMAIN evs :
        /\ evs[i].status = "booked"
        /\ evs[i].studentName = name
        /\ overlaps(evs[i], candidate)

\* A patch that marks the slot booked and forgets who booked it.
bookingPatchNoName(name) ==
    [status |-> "booked", studentName |-> Undefined, color |-> BookedColor]

\* A patch that parks the slot as 'pending' instead of booking it.
bookingPatchPending(name) ==
    [status |-> "pending", studentName |-> name, color |-> BookedColor]

bookingPatch(name) ==
    [status |-> "booked", studentName |-> name, color |-> BookedColor]

\* A click handler that offers to book every event that is not booked.
handleEventClickUnbooked(c, evId, name, del) ==
    LET found == hasEvent(events[c], evId)
        ev == findEvent(events[c], evId)
        isAvail == found /\ ev.status # "booked"
        candidate == [ev EXCEPT !.studentName = name]
        conflict == isAvail /\ name # Undefined
                    /\ bookingConflict(events[c], candidate, name)
        outcome ==
            IF ~found THEN "notfound"
            ELSE IF isAvail THEN
                    IF name = Undefined THEN "cancelled"
                    ELSE IF conflict THEN "conflict"
                    ELSE "booked"
            ELSE IF del THEN "deleted" ELSE "kept"
    IN
    /\ store' = CASE outcome = "booked" ->
                        updateEvent(store, evId, bookingPatch(name))
                  [] outcome = "deleted" -> removeEvent(store, evId)
                  [] OTHER -> store
    /\ last' = [handler |-> "handleEventClick", client |-> c, id |-> evId,
                name |-> IF isAvail THEN name ELSE Undefined,
                del |-> found /\ ~isAvail /\ del, outcome |-> outcome,
                before |-> IF last.handler = "handleEventClick"
                              /\ last.outcome = "booked"
                           THEN [client |-> last.client, id |-> last.id,
                                 name |-> last.name]
                           ELSE [client |-> "none", id |-> 0,
                                 name |-> Undefined],
                writes |->
                    CASE outcome = "booked" ->
                            <<[op |-> "update", id |-> evId,
                               patch |-> bookingPatch(name)]>>
                      [] outcome = "deleted" ->
                            <<[op |-> "delete", id |-> evId]>>
                      [] OTHER -> NoWrites]
    /\ UNCHANGED <<events, statusFilter, nextUid>>

\* A click handler without the `if (!name) return` line.
handleEventClickAnyName(c, evId, name, del) ==
    LET found == hasEvent(events[c], evId)
        ev == findEvent(events[c], evId)
        isAvail == found /\ ev.status = "available"
        candidate == [ev EXCEPT !.studentName = name]
        conflict == isAvail /\ bookingConflict(events[c], candidate, name)
        outcome ==
            IF ~found THEN "notfound"
            ELSE IF isAvail THEN
                    IF conflict THEN "conflict" ELSE "booked"
            ELSE IF del THEN "deleted" ELSE "kept"
    IN
    /\ store' = CASE outcome = "booked" ->
                        updateEvent(store, evId, bookingPatch(name))
                  [] outcome = "deleted" -> removeEvent(store, evId)
                  [] OTHER -> store
    /\ last' = [handler |-> "handleEventClick", client |-> c, id |-> evId,
                name |-> IF isAvail THEN name ELSE Undefined,
                del |-> found /\ ~isAvail /\ del, outcome |-> outcome,
                before |-> IF last.handler = "handleEventClick"
                              /\ last.outcome = "booked"
                           THEN [client |-> last.client, id |-> last.id,
                                 name |-> last.name]
                           ELSE [client |-> "none", id |-> 0,
                                 name |-> Undefined],
                writes |->
                    CASE outcome = "booked" ->
                            <<[op |-> "update", id |-> evId,
                               patch |-> bookingPatch(name)]>>
                      [] outcome = "deleted" ->
                            <<[op |-> "delete", id |-> evId]>>
                      [] OTHER -> NoWrites]
    /\ UNCHANGED <<events, statusFilter, nextUid>>

handleEventClick(c, evId, name, del) ==
    LET found == hasEvent(events[c], evId)
        ev == findEvent(events[c], evId)
        isAvail == found /\ ev.status = "available"
        candidate == [ev EXCEPT !.studentName = name]
        conflict == isAvail /\ name # Undefined
                    /\ bookingConflict(events[c], candidate, name)
        outcome ==
            IF ~found THEN "notfound"
            ELSE IF isAvail THEN
                    IF name = Undefined THEN "cancelled"
                    ELSE IF conflict THEN "conflict"
                    ELSE "booked"
            ELSE IF del THEN "deleted" ELSE "kept"
    IN
    /\ store' = CASE outcome = "booked" ->
                        updateEvent(store, evId, bookingPatch(name))
                  [] outcome = "deleted" -> removeEvent(store, evId)
                  [] OTHER -> store
    /\ last' = [handler |-> "handleEventClick", client |-> c, id |-> evId,
                name |-> IF isAvail THEN name ELSE Undefined,
                del |-> found /\ ~isAvail /\ del, outcome |-> outcome,
                before |-> IF last.handler = "handleEventClick"
                              /\ last.outcome = "booked"
                           THEN [client |-> last.client, id |-> last.id,
                                 name |-> last.name]
                           ELSE [client |-> "none", id |-> 0,
                                 name |-> Undefined],
                writes |->
                    CASE outcome = "booked" ->
                            <<[op |-> "update", id |-> evId,
                               patch |-> bookingPatch(name)]>>
                      [] outcome = "deleted" ->
                            <<[op |-> "delete", id |-> evId]>>
                      [] OTHER -> NoWrites]
    /\ UNCHANGED <<events, statusFilter, nextUid>>

\* "Clear All" button: one removeEvent per event of the snapshot.
clearAll(c, confirm) ==
    LET ids == {events[c][i].id : i \in DOMAIN events[c]} IN
    /\ store' = IF confirm /\ backend = "up"
                THEN [i \in DOMAIN store \ ids |-> store[i]]
                ELSE store
    /\ last' = [handler |-> "clearAll", client |-> c,
                outcome |-> IF confirm THEN "cleared" ELSE "kept",
                writes |-> IF confirm
                           THEN [k \in DOMAIN events[c] |->
                                    [op |-> "delete", id |-> events[c][k].id]]
                           ELSE NoWrites]
    /\ UNCHANGED <<events, statusFilter, nextUid>>

\* ------------------------------------------------------- drag and resize
toISOString(t) == (t \div 60) * 100 + (t % 60)

\* The range FullCalendar gives an event: an event without end lasts the
\* default duration of its kind.
fcEnd(e) ==
    IF e.end # NoEnd THEN getTime(e.end)
    ELSE getTime(e.start) + (IF e.allDay THEN defaultAllDayEventDuration
                             ELSE defaultTimedEventDuration)

\* eventOverlap={false}: a drop or resize is delivered only if the moved
\* range intersects the range of no other event on display.
dropAllowed(c, id, newStart, newEnd) ==
    \A i \in DOMAIN filteredEvents(c) :
        LET o == filteredEvents(c)[i] IN
        o.id # id => ~(newStart < fcEnd(o) /\ getTime(o.start) < newEnd)

\* eventDrop callback.  info.event is the event as moved by FullCalendar:
\* the duration is kept, an event without end has event.end = null and the
\* patch then carries end: undefined, which updateDoc refuses unless the
\* Firestore instance ignores undefined properties.
eventDrop(c, id, newStart, newAllDay, ignoreUndefined) ==
    /\ hasEvent(filteredEvents(c), id)
    /\ LET e == findEvent(events[c], id)
           keepsEnd == e.end # NoEnd /\ newAllDay = e.allDay
           newEnd == IF keepsEnd
                     THEN newStart + (getTime(e.end) - getTime(e.start))
                     ELSE NoEnd
           shown == [e EXCEPT !.start = toISOString(newStart), !.end = NoEnd,
                              !.allDay = newAllDay]
           full == [start |-> toISOString(newStart),
                    end |-> IF keepsEnd THEN toISOString(newEnd) ELSE NoEnd,
                    allDay |-> newAllDay]
           patch == IF keepsEnd THEN full
                    ELSE [start |-> full.start, allDay |-> full.allDay]
           rejected == ~keepsEnd /\ ~ignoreUndefined
       IN  /\ newStart # getTime(e.start) \/ newAllDay # e.allDay
           /\ dropAllowed(c, id, newStart,
                          IF keepsEnd THEN newEnd ELSE fcEnd(shown))
           /\ store' = IF rejected THEN store ELSE updateEvent(store, id, patch)
           /\ last' = [handler |-> "eventDrop", client |-> c, id |-> id,
                       outcome |-> IF rejected THEN "rejected" ELSE "moved",
                       writes |-> IF rejected THEN NoWrites
                                  ELSE <<[op |-> "update", id |-> id,
                                          patch |-> patch]>>]
    /\ UNCHANGED <<events, statusFilter, nextUid>>

\* A resize that also frees the slot.
eventResizeReleasing(c, id, newEnd) ==
    /\ hasEvent(filteredEvents(c), id)
    /\ LET e == findEvent(events[c], id)
           patch == [end |-> toISOString(newEnd), status |-> "available",
                     studentName |-> Undefined]
       IN  /\ newEnd > getTime(e.start)
           /\ newEnd # fcEnd(e)
           /\ dropAllowed(c, id, getTime(e.start), newEnd)
           /\ store' = updateEvent(store, id, patch)
           /\ last' = [handler |-> "eventResize", client |-> c, id |-> id,
                       outcome |-> "resized",
                       writes |-> <<[op |-> "update", id |-> id,
                                     patch |-> patch]>>]
    /\ UNCHANGED <<events, statusFilter, nextUid>>

\* eventResize callback: the end of a resized event is always set.
eventResize(c, id, newEnd) ==
    /\ hasEvent(filteredEvents(c), id)
    /\ LET e == findEvent(events[c], id)
           patch == [end |-> toISOString(newEnd)]
       IN  /\ newEnd > getTime(e.start)
           /\ newEnd # fcEnd(e)
           /\ dropAllowed(c, id, getTime(e.start), newEnd)
           /\ store' = updateEvent(store, id, patch)
           /\ last' = [handler |-> "eventResize", client |-> c, id |-> id,
                       outcome |-> "resized",
                       writes |-> <<[op |-> "update", id |-> id,
                                     patch |-> patch]>>]
    /\ UNCHANGED <<events, statusFilter, nextUid>>

\* ------------------------------------------------------------ notes page
\* storagePath: null of a note without attachment.
NoPath == 0

NoteDoc(id, path) == [id |-> id, storagePath |-> path]

\* selected = null.
NoSelection == NoteDoc(0, NoPath)

\* The notes page before anything was saved.
NoNotes ==
    [docs |-> <<>>, blobs |-> {}, notes |-> <<>>, selected |-> NoSelection,
     withAnon |-> FALSE]

\* query(notesRef, orderBy("createdAt", "desc")): ids grow with createdAt.
RECURSIVE NewestFirst(_)
NewestFirst(S) ==
    IF S = {} THEN <<>>
    ELSE LET first == CHOOSE d \in S : \A o \in S : o.id <= d.id
         IN  <<first>> \o NewestFirst(S \ {first})

NoteList(docs) == NewestFirst({docs[i] : i \in DOMAIN docs})

\* The onSnapshot callback of the notes listener: the list replaces notes,
\* and a selected note still in the list is replaced by its new version.
noteSnapshot ==
    LET list == NoteList(note.docs)
        found == \E i \in DOMAIN list : list[i].id = note.selected.id
        refreshed == list[CHOOSE i \in DOMAIN list : list[i].id = note.selected.id]
    IN
    /\ note.notes # list
    /\ note' = [note EXCEPT !.notes = list,
                            !.selected = IF note.selected # NoSelection /\ found
                                         THEN refreshed ELSE note.selected]
    /\ last' = [handler |-> "noteSnapshot", client |-> "A", writes |-> NoWrites]

openNote(n) ==
    /\ note.selected # n
    /\ note' = [note EXCEPT !.selected = n]
    /\ last' = [handler |-> "openNote", client |-> "A", writes |-> NoWrites]

closeNote ==
    /\ note.selected # NoSelection
    /\ note' = [note EXCEPT !.selected = NoSelection]
    /\ last' = [handler |-> "closeNote", client |-> "A", writes |-> NoWrites]

\* A delete handler that lets a failure of the blob delete reach the outer
\* catch.
handleDeleteEscalating(n, ok, anonOk, docOk, blobOk) ==
    LET anonFails == note.withAnon /\ ~anonOk
        recordDeleted == ok /\ ~anonFails /\ docOk
        blobTried == recordDeleted /\ n.storagePath # NoPath
        blobDeleted == blobTried /\ blobOk /\ n.storagePath \in note.blobs
        blobFailed == blobTried /\ ~blobDeleted
        failed == ok /\ (~recordDeleted \/ blobFailed)
    IN
    /\ note' = [note EXCEPT
          !.docs = IF recordDeleted THEN removeEvent(note.docs, n.id) ELSE @,
          !.blobs = IF blobDeleted THEN @ \ {n.storagePath} ELSE @,
          !.selected = IF recordDeleted /\ ~blobFailed /\ @.id = n.id
                       THEN NoSelection ELSE @]
    /\ last' = [handler |-> "handleDelete", client |-> "A", id |-> n.id,
                storagePath |-> n.storagePath, ok |-> ok,
                wasSelected |-> note.selected.id = n.id,
                calls |->
                    (IF ok /\ note.withAnon THEN <<"ensureAnon">> ELSE <<>>)
                    \o (IF ok /\ ~anonFails THEN <<"deleteDoc">> ELSE <<>>)
                    \o (IF blobTried THEN <<"deleteObject">> ELSE <<>>),
                recordDeleted |-> recordDeleted,
                blobFailed |-> blobFailed,
                warnings |-> 0,
                alerts |-> IF failed THEN 1 ELSE 0,
                writes |-> IF ok /\ ~anonFails
                           THEN <<[op |-> "delete", id |-> n.id]>>
                           ELSE NoWrites]

\* handleDelete(note): confirm, (ensureAnon in the copy of calendar.tsx,)
\* deleteDoc, then deleteObject inside its own try when the note carries a
\* storagePath, then the selection is cleared if this note was selected.
\* A rejection of ensureAnon or deleteDoc goes to the outer catch (alert);
\* a rejection of deleteObject, which a missing object also causes, is
\* caught by the inner catch (console.warn).  deleteDoc of a document that
\* is no longer there succeeds.
handleDelete(n, ok, anonOk, docOk, blobOk) ==
    LET anonFails == note.withAnon /\ ~anonOk
        recordDeleted == ok /\ ~anonFails /\ docOk
        blobTried == recordDeleted /\ n.storagePath # NoPath
        blobDeleted == blobTried /\ blobOk /\ n.storagePath \in note.blobs
        blobFailed == blobTried /\ ~blobDeleted
        failed == ok /\ ~recordDeleted
    IN
    /\ note' = [note EXCEPT
          !.docs = IF recordDeleted THEN removeEvent(note.docs, n.id) ELSE @,
          !.blobs = IF blobDeleted THEN @ \ {n.storagePath} ELSE @,
          !.selected = IF recordDeleted /\ @.id = n.id
                       THEN NoSelection ELSE @]
    /\ last' = [handler |-> "handleDelete", client |-> "A", id |-> n.id,
                storagePath |-> n.storagePath, ok |-> ok,
                wasSelected |-> note.selected.id = n.id,
                calls |->
                    (IF ok /\ note.withAnon THEN <<"ensureAnon">> ELSE <<>>)
                    \o (IF ok /\ ~anonFails THEN <<"deleteDoc">> ELSE <<>>)
                    \o (IF blobTried THEN <<"deleteObject">> ELSE <<>>),
                recordDeleted |-> recordDeleted,
                blobFailed |-> blobFailed,
                warnings |-> IF blobFailed THEN 1 ELSE 0,
                alerts |-> IF failed THEN 1 ELSE 0,
                writes |-> IF ok /\ ~anonFails
                           THEN <<[op |-> "delete", id |-> n.id]>>
                           ELSE NoWrites]

\* -------------------------------------------------- listeners and editor
\* A mounted component after its mount effect: one listener registered.
Registered ==
    [mounted |-> TRUE, listeners |-> 1, registered |-> 1, unsubs |-> 0]

\* The notes page after its mount effect (and, where it signs in first,
\* after ensureAnon has resolved).
PageRegistered ==
    [mounted |-> TRUE, anon |-> "done", cancelled |-> FALSE, listeners |-> 1,
     registered |-> 1, unsubs |-> 0]

Listening == [cal |-> [c \in Clients |-> Registered], page |-> PageRegistered]

\* A component that has not rendered yet.
Unmounted ==
    [mounted |-> FALSE, listeners |-> 0, registered |-> 0, unsubs |-> 0]

\* The mount effect of the calendar (deps [eventsRef], a memoised value):
\* it runs once, after the first render, and registers the listener.
mount(c) ==
    /\ ~life.cal[c].mounted /\ life.cal[c].registered = 0
    /\ life' = [life EXCEPT !.cal[c] =
                   [@ EXCEPT !.mounted = TRUE, !.listeners = @ + 1,
                             !.registered = @ + 1]]
    /\ last' = [handler |-> "mount", client |-> c, writes |-> NoWrites]
    /\ UNCHANGED <<store, events, statusFilter, nextUid>>

\* The listener fails (permission-denied, unavailable).  onSnapshot is
\* called with a success callback only, so nothing runs in the component;
\* Firestore ends the listener.
snapshotError(c) ==
    /\ life.cal[c].listeners > 0
    /\ backend = "down"
    /\ life' = [life EXCEPT !.cal[c] = [@ EXCEPT !.listeners = @ - 1]]
    /\ last' = [handler |-> "onSnapshotError", client |-> c,
                writes |-> NoWrites]
    /\ UNCHANGED <<store, events, statusFilter, nextUid>>

\* An unmount whose cleanup forgets the listener.
unmountKeepListening(c) ==
    /\ life.cal[c].mounted
    /\ life' = [life EXCEPT !.cal[c] = [@ EXCEPT !.mounted = FALSE]]
    /\ last' = [handler |-> "unmount", client |-> c, writes |-> NoWrites]
    /\ UNCHANGED <<store, events, statusFilter, nextUid>>

\* Unmount: React runs the cleanup `() => unsub()`.
unmount(c) ==
    /\ life.cal[c].mounted
    /\ life' = [life EXCEPT !.cal[c] =
                   [@ EXCEPT !.mounted = FALSE, !.listeners = @ - 1,
                             !.unsubs = @ + 1]]
    /\ last' = [handler |-> "unmount", client |-> c, writes |-> NoWrites]
    /\ UNCHANGED <<store, events, statusFilter, nextUid>>

\* The notes page before its first render.
PageUnmounted ==
    [mounted |-> FALSE, anon |-> "pending", cancelled |-> FALSE,
     listeners |-> 0, registered |-> 0, unsubs |-> 0]

\* The listener effect of the notes page runs after the first render:
\* note.tsx registers at once, the page that signs in first calls
\* startListener, which awaits ensureAnon.
pageMount ==
    /\ life.page = PageUnmounted
    /\ life' = [life EXCEPT !.page =
                   IF note.withAnon THEN [@ EXCEPT !.mounted = TRUE]
                   ELSE [@ EXCEPT !.mounted = TRUE, !.anon = "done",
                                  !.listeners = @ + 1, !.registered = @ + 1]]
    /\ last' = [handler |-> "pageMount", client |-> "A", alerts |-> 0,
                writes |-> NoWrites]
    /\ note' = note

\* A startListener without the `if (cancelled) return`.
startListenerUnguarded(ok) ==
    /\ note.withAnon
    /\ life.page.anon = "pending"
    /\ life.page.mounted \/ life.page.cancelled
    /\ life' = [life EXCEPT !.page =
                   IF ~ok THEN [@ EXCEPT !.anon = "failed"]
                   ELSE [@ EXCEPT !.anon = "done", !.listeners = @ + 1,
                                  !.registered = @ + 1]]
    /\ last' = [handler |-> "startListener", client |-> "A",
                alerts |-> IF ok THEN 0 ELSE 1, writes |-> NoWrites]
    /\ note' = note

\* ensureAnon settles in startListener: a rejection is alerted, a cancelled
\* effect returns, otherwise onSnapshot registers the listener.
startListener(ok) ==
    /\ note.withAnon
    /\ life.page.anon = "pending"
    /\ life.page.mounted \/ life.page.cancelled
    /\ life' = [life EXCEPT !.page =
                   IF ~ok THEN [@ EXCEPT !.anon = "failed"]
                   ELSE IF @.cancelled THEN [@ EXCEPT !.anon = "done"]
                   ELSE [@ EXCEPT !.anon = "done", !.listeners = @ + 1,
                                  !.registered = @ + 1]]
    /\ last' = [handler |-> "startListener", client |-> "A",
                alerts |-> IF ok THEN 0 ELSE 1, writes |-> NoWrites]
    /\ note' = note

\* The cleanup of the listener effect at unmount: `() => unsub()` in
\* note.tsx, `cancelled = true; if (unsub) unsub()` where the page signs in.
pageUnmount ==
    /\ life.page.mounted
    /\ life' = [life EXCEPT !.page =
                   [@ EXCEPT !.mounted = FALSE, !.cancelled = TRUE,
                             !.listeners = IF @ > 0 THEN @ - 1 ELSE @,
                             !.unsubs = IF life.page.listeners > 0
                                        THEN @ + 1 ELSE @]]
    /\ last' = [handler |-> "pageUnmount", client |-> "A", alerts |-> 0,
                writes |-> NoWrites]
    /\ note' = note

\* note.tsx lists `selected` among the deps of the listener effect: when a
\* handler has set a new selection, the cleanup unsubscribes and the effect
\* registers again.
pageEffect(reselected) ==
    IF ~note.withAnon /\ reselected /\ life.page.listeners > 0
    THEN [life EXCEPT !.page = [@ EXCEPT !.registered = @ + 1,
                                         !.unsubs = @ + 1]]
    ELSE life

\* file = null.
NoFile == [type |-> "none", mb |-> 0]

\* No handleSave call in flight.  A call in flight keeps the file of its
\* closure, the await it is suspended at (pc), the state of its timeout
\* timer and the remote calls it has issued so far.
NoRun == [pc |-> "idle", file |-> NoFile, timer |-> "none", calls |-> <<>>]

\* The editor as useState initialises it.
NoForm ==
    [title |-> "", body |-> "", file |-> NoFile, saving |-> FALSE,
     progress |-> 0, uploadError |-> "null", run |-> NoRun]

\* uploadProgress = null (the page that signs in first).
NoProgress == 0 - 1

\* What finally resets the progress indicator to: setProgress(0) in
\* note.tsx, setUploadProgress(null) in the page that signs in first.
progressReset == IF note.withAnon THEN NoProgress ELSE 0

\* String.prototype.trim on the texts of the model.
trim(t) == IF t = " " THEN "" ELSE t

ALLOWED == {"png", "jpeg", "pdf", "txt"}

isImage(type) == type \in {"png", "jpeg"}

maxMb == IF note.withAnon THEN MAX_MB_SignIn ELSE MAX_MB

canSave ==
    /\ trim(form.title) # "" \/ trim(form.body) # "" \/ form.file # NoFile
    /\ ~form.saving

setTitle(t) ==
    /\ t # form.title
    /\ form' = [form EXCEPT !.title = t]
    /\ last' = [handler |-> "setTitle", client |-> "A", writes |-> NoWrites]
    /\ note' = note

setBody(t) ==
    /\ t # form.body
    /\ form' = [form EXCEPT !.body = t]
    /\ last' = [handler |-> "setBody", client |-> "A", writes |-> NoWrites]
    /\ note' = note

\* A file picker that stores whatever was picked.
onPickFileUnchecked(f, m, ok) ==
    /\ form' = [form EXCEPT !.file = f, !.uploadError = "null"]
    /\ last' = [handler |-> "onPickFile", client |-> "A", picked |-> f,
                stored |-> f # NoFile, alerts |-> 0, writes |-> NoWrites]
    /\ note' = note

\* The change handler of the file input.  f is the file of the dialog
\* (NoFile: the dialog was cancelled); note.tsx compresses an image above
\* 1 MB to a jpeg of m MB, which can fail (ok).  The handler is taken as one
\* step, so the saving flag it raises while compressing is already lowered
\* again at its end; a rejected file leaves the earlier choice in place.
onPickFile(f, m, ok) ==
    LET refused == f # NoFile /\ (f.type \notin ALLOWED \/ f.mb > maxMb)
        compress == ~note.withAnon /\ isImage(f.type) /\ f.mb > 1
        processedFile == IF compress THEN [type |-> "jpeg", mb |-> m] ELSE f
        quiet == IF note.withAnon THEN NoProgress ELSE form.progress
    IN
    /\ form' =
          IF f = NoFile
          THEN [form EXCEPT !.file = NoFile, !.uploadError = "null",
                            !.progress = quiet]
          ELSE IF refused THEN [form EXCEPT !.progress = quiet]
          ELSE IF note.withAnon
          THEN [form EXCEPT !.file = f, !.uploadError = "null",
                            !.progress = quiet]
          ELSE IF compress /\ ~ok
          THEN [form EXCEPT !.uploadError = "process", !.saving = FALSE]
          ELSE [form EXCEPT !.file = processedFile, !.uploadError = "null",
                            !.saving = FALSE]
    /\ last' = [handler |-> "onPickFile", client |-> "A", picked |-> f,
                stored |-> f # NoFile /\ ~refused /\ (compress => ok),
                alerts |-> IF refused THEN 1 ELSE 0, writes |-> NoWrites]
    /\ note' = note

\* The record of a handleSave step.
saveStep(phase, outcome, calls, alerts) ==
    [handler |-> "handleSave", client |-> "A", phase |-> phase,
     outcome |-> outcome, calls |-> calls, alerts |-> alerts,
     writes |-> NoWrites]

\* The id of the next note (createdAt grows with it) and, for a note with
\* attachment, its storage path.
nextNoteId == Cardinality(DOMAIN note.docs) + 1

\* The start of handleSave, from the Save button (disabled unless canSave)
\* or from Ctrl/Cmd+S (`if (canSave) handleSave()`), up to its first await.
\* One call is followed at a time.
handleSave(viaKey) ==
    LET invalid == trim(form.title) = "" /\ trim(form.body) = ""
                   /\ form.file = NoFile
        hasFile == form.file # NoFile
        pc == IF note.withAnon THEN "anon"
              ELSE IF hasFile THEN "upload" ELSE "write"
        calls == IF note.withAnon THEN <<"ensureAnon">>
                 ELSE IF hasFile THEN <<"upload">> ELSE <<"addDoc">>
    IN
    /\ canSave => form.run.pc = "idle" /\ nextNoteId <= MaxNotes
    /\ note' = note
    /\ IF ~canSave
       THEN /\ form' = form
            /\ last' = [saveStep("start", "blocked", <<>>, 0)
                           EXCEPT !.client = IF viaKey THEN "key" ELSE "button"]
       ELSE IF invalid
       THEN /\ form' = form
            /\ last' = saveStep("start", "invalid", <<>>, 1)
       ELSE /\ form' = [form EXCEPT
                  !.saving = TRUE,
                  !.progress = IF note.withAnon THEN @ ELSE 0,
                  !.uploadError = "null",
                  !.run = [pc |-> pc, file |-> form.file,
                           timer |-> IF pc = "upload" THEN "armed" ELSE "none",
                           calls |-> calls]]
            /\ last' = saveStep("start", "running", calls, 0)

\* A catch block that leaves the saving flag up.
saveFailedKeepSaving(phase, error, calls) ==
    /\ form' = [form EXCEPT !.uploadError = error, !.run = NoRun]
    /\ last' = saveStep(phase, "failed", calls, 1)

\* catch and finally of handleSave: the message is kept and alerted, saving
\* and progress are reset, the form keeps its contents.
saveFailed(phase, error, calls) ==
    /\ form' = [form EXCEPT !.uploadError = error, !.saving = FALSE,
                            !.progress = progressReset, !.run = NoRun]
    /\ last' = saveStep(phase, "failed", calls, 1)

\* ensureAnon settles (the page that signs in first); with a file the
\* upload starts, without a timeout timer.
anonDone(ok) ==
    LET hasFile == form.run.file # NoFile
        calls == form.run.calls
                 \o (IF hasFile THEN <<"upload">> ELSE <<"addDoc">>)
    IN
    /\ form.run.pc = "anon"
    /\ note' = note
    /\ IF ok
       THEN /\ form' = [form EXCEPT
                  !.progress = IF hasFile THEN 0 ELSE @,
                  !.run = [@ EXCEPT !.pc = IF hasFile THEN "upload" ELSE "write",
                                    !.calls = calls]]
            /\ last' = saveStep("anon", "running", calls, 0)
       ELSE saveFailed("anon", "failed", form.run.calls)

\* state_changed with a byte count.
uploadProgress(pct) ==
    /\ form.run.pc = "upload"
    /\ pct > form.progress
    /\ form' = [form EXCEPT !.progress = pct]
    /\ last' = saveStep("progress", "running", form.run.calls, 0)
    /\ note' = note

\* A completion callback that leaves the timeout timer running.
uploadCompleteKeepTimer ==
    LET calls == form.run.calls \o <<"getDownloadURL">> IN
    /\ form.run.pc = "upload"
    /\ form' = [form EXCEPT !.run = [@ EXCEPT !.pc = "url", !.calls = calls]]
    /\ note' = [note EXCEPT !.blobs = @ \cup {nextNoteId}]
    /\ last' = saveStep("upload", "running", calls, 0)

\* The upload completes: the object is in storage, the timer is cleared
\* and the download URL is asked for.
uploadComplete ==
    LET calls == form.run.calls \o <<"getDownloadURL">> IN
    /\ form.run.pc = "upload"
    /\ form' = [form EXCEPT
          !.run = [@ EXCEPT !.pc = "url", !.calls = calls,
                            !.timer = IF @ = "armed" THEN "cleared" ELSE @]]
    /\ note' = [note EXCEPT !.blobs = @ \cup {nextNoteId}]
    /\ last' = saveStep("upload", "running", calls, 0)

\* The upload fails: the timer is cleared and the promise rejected.
uploadError ==
    /\ form.run.pc = "upload"
    /\ saveFailed("upload", "failed", form.run.calls)
    /\ note' = note

\* The timeout timer of note.tsx fires: task.cancel() and reject.  The
\* rejection has an effect while the upload promise is still pending.
uploadTimeout ==
    LET calls == form.run.calls \o <<"cancel">> IN
    /\ form.run.timer = "armed"
    /\ note' = note
    /\ IF form.run.pc \in {"upload", "url"}
       THEN saveFailed("timeout", "timeout", calls)
       ELSE /\ form' = [form EXCEPT !.run = [@ EXCEPT !.timer = "fired",
                                                      !.calls = calls]]
            /\ last' = saveStep("timeout", "running", calls, 0)

\* A URL fetch whose failure is swallowed: the record is written without
\* the URL.
urlDoneSwallowing(ok) ==
    LET calls == form.run.calls \o <<"addDoc">> IN
    /\ form.run.pc = "url"
    /\ note' = note
    /\ form' = [form EXCEPT !.run = [@ EXCEPT !.pc = "write", !.calls = calls]]
    /\ last' = saveStep("url", IF ok THEN "running" ELSE "failed", calls, 0)

\* getDownloadURL settles; on success addDoc is issued.
urlDone(ok) ==
    LET calls == form.run.calls \o <<"addDoc">> IN
    /\ form.run.pc = "url"
    /\ note' = note
    /\ IF ok
       THEN /\ form' = [form EXCEPT !.run = [@ EXCEPT !.pc = "write",
                                                      !.calls = calls]]
            /\ last' = saveStep("url", "running", calls, 0)
       ELSE saveFailed("url", "failed", form.run.calls)

\* addDoc settles; on success the form is reset, then finally runs.
writeDone(ok) ==
    LET path == IF form.run.file # NoFile THEN nextNoteId ELSE NoPath IN
    /\ form.run.pc = "write"
    /\ IF ok
       THEN /\ note' = [note EXCEPT !.docs =
                          [i \in DOMAIN @ \cup {nextNoteId} |->
                              IF i \in DOMAIN @ THEN @[i]
                              ELSE NoteDoc(nextNoteId, path)]]
            /\ form' = [form EXCEPT !.title = "", !.body = "",
                                    !.file = NoFile, !.saving = FALSE,
                                    !.progress = progressReset, !.run = NoRun]
            /\ last' = saveStep("write", "saved", form.run.calls, 0)
       ELSE /\ note' = note
            /\ saveFailed("write", "failed", form.run.calls)

\* ------------------------------------------------------------------- init
NoOp == [handler |-> "init", client |-> "none", writes |-> NoWrites]

\* A slot put on hold from outside the component (the type allows the
\* status 'pending', no handler writes it).
pendingSlot(id, t, t2) ==
    [slotCandidate(id, DefaultSlotTitle, t, t2) EXCEPT !.status = "pending"]

\* The collection outlives the component: a client mounts with an empty
\* list over whatever is persisted, here nothing or one free slot
\* 00:00-00:10 left by an earlier generation.
InitStores ==
    { <<>>,
      <<slotCandidate(1, DefaultSlotTitle, 0, 10)>> }

Init ==
    /\ store \in InitStores
    /\ events = [c \in Clients |-> <<>>]
    /\ statusFilter = [c \in Clients |-> "all"]
    /\ nextUid = Len(store) + 1
    /\ last = NoOp
    /\ steps = 0
    /\ note = NoNotes
    /\ form = NoForm
    /\ life = Listening
    /\ backend = "up"

\* ----------------------------------------------------------------- inputs
Titles == {Undefined, "Math"}
Names == {Undefined, "Sam", "Kim"}
Filters == {"all", "available"}

HHMM(t) == [nan |-> FALSE, min |-> t]
NaNTime == [nan |-> TRUE, min |-> 0]
IntText(n) == [kind |-> "int", val |-> n]
EmptyText == [kind |-> "empty", val |-> 0]
JunkText == [kind |-> "junk", val |-> 0]

SelectInfos == {[start |-> 0, end |-> 10, allDay |-> FALSE]}
DateClickInfos == {[date |-> 0, allDay |-> FALSE], [date |-> 0, allDay |-> TRUE]}
WindowStarts == {HHMM(0)}
WindowEnds == {HHMM(0), HHMM(10)}
SlotTexts == {IntText(5), IntText(10)}
DropStarts == {5}
ResizeEnds == {5}

Ids(c) == {events[c][i].id : i \in DOMAIN events[c]}

\* A step of the calendar leaves the notes page, the listeners and the
\* backend as they are.
OthersIdle == UNCHANGED <<note, form, life, backend>>

\* Every user action counts against the bound on user actions.
Tick == steps < MaxSteps /\ steps' = steps + 1

Select(c) ==
    /\ Tick /\ life.cal[c].mounted /\ OthersIdle /\ nextUid <= MaxUid
    /\ \E title \in Titles, info \in SelectInfos : handleSelect(c, title, info)

DateClick(c) ==
    /\ Tick /\ life.cal[c].mounted /\ OthersIdle /\ nextUid <= MaxUid
    /\ \E title \in Titles, info \in DateClickInfos :
          handleDateClick(c, title, info)

AddToday(c) ==
    /\ Tick /\ life.cal[c].mounted /\ OthersIdle /\ nextUid <= MaxUid
    /\ \E title \in Titles : addEventToday(c, title)

Generate(c) ==
    /\ Tick /\ life.cal[c].mounted /\ OthersIdle
    /\ \E dateStr \in {Undefined, "2024-01-01"}, start \in WindowStarts,
          end \in WindowEnds, slotMinStr \in SlotTexts :
        /\ dateStr = Undefined =>
              start = HHMM(0) /\ end = HHMM(0) /\ slotMinStr = IntText(5)
        /\ nextUid + slotLoopUids(start.min, end.min, slotMinOf(slotMinStr))
              <= MaxUid + 1
        /\ generateTimeSlots(c, dateStr, start, end, slotMinStr, Undefined)

Click(c) ==
    /\ Tick /\ life.cal[c].mounted /\ OthersIdle
    /\ \E id \in Ids(c), name \in Names, del \in BOOLEAN :
        /\ hasEvent(filteredEvents(c), id)
        /\ handleEventClick(c, id, name, del)

Drop(c) ==
    /\ Tick /\ life.cal[c].mounted /\ OthersIdle
    /\ \E id \in Ids(c), t \in DropStarts, ignoreUndefined \in BOOLEAN :
          eventDrop(c, id, t, FALSE, ignoreUndefined)

Resize(c) ==
    /\ Tick /\ life.cal[c].mounted /\ OthersIdle
    /\ \E id \in Ids(c), t \in ResizeEnds : eventResize(c, id, t)

Clear(c) ==
    /\ Tick /\ life.cal[c].mounted /\ OthersIdle
    /\ \E confirm \in BOOLEAN : clearAll(c, confirm)

Filter(c) ==
    /\ Tick /\ life.cal[c].mounted /\ OthersIdle
    /\ \E v \in Filters : setStatusFilter(c, v)

Snapshot(c) == onSnapshot(c) /\ UNCHANGED steps /\ OthersIdle

Next ==
    \/ \E c \in Clients : Snapshot(c)
    \/ \E c \in Clients : Select(c)
    \/ \E c \in Clients : DateClick(c)
    \/ \E c \in Clients : AddToday(c)
    \/ \E c \in Clients : Generate(c)
    \/ \E c \in Clients : Click(c)
    \/ \E c \in Clients : Drop(c)
    \/ \E c \in Clients : Resize(c)
    \/ \E c \in Clients : Clear(c)
    \/ \E c \in Clients : Filter(c)

Spec == Init /\ [][Next]_vars

\* ------------------------------------------------- slot generation alone
\* One call of generateTimeSlots from a calendar that already holds events:
\* a booked slot 14:30-15:00, an event without end at 14:20, a plain
\* half-hour event 14:10-14:40 and a free slot 15:45-16:00.
GenDayStart == 840
GenFirstUid == 10
MaxOvPoints == 4
MaxLifeSteps == 2
MaxFaultSteps == 2
MaxRegistered == 3

GenPool ==
    { [id |-> 1, title |-> DefaultSlotTitle, start |-> 1430, end |-> 1500,
       allDay |-> FALSE, color |-> BookedColor, status |-> "booked",
       studentName |-> "Sam"],
      [id |-> 2, title |-> "Math", start |-> 1420, end |-> NoEnd,
       allDay |-> FALSE, color |-> PlainColor, status |-> Undefined,
       studentName |-> Undefined],
      [id |-> 3, title |-> "Math", start |-> 1410, end |-> 1440,
       allDay |-> FALSE, color |-> PlainColor, status |-> Undefined,
       studentName |-> Undefined],
      [id |-> 4, title |-> DefaultSlotTitle, start |-> 1545, end |-> 1600,
       allDay |-> FALSE, color |-> SlotColor, status |-> "available",
       studentName |-> Undefined] }

GenWindowStarts == {HHMM(GenDayStart), HHMM(GenDayStart + 10), NaNTime}
GenWindowEnds ==
    {HHMM(GenDayStart + n) : n \in {0, 17, 30, MaxWindow}} \cup {NaNTime}
GenSlotTexts ==
    {IntText(n) : n \in (-2)..MaxSlotText} \cup {IntText(45), EmptyText, JunkText}

InitGen ==
    /\ \E S \in SUBSET GenPool :
          /\ store = [i \in {d.id : d \in S} |-> CHOOSE d \in S : d.id = i]
          /\ events = [c \in Clients |-> SortByStart(S)]
    /\ statusFilter = [c \in Clients |-> "all"]
    /\ nextUid = GenFirstUid
    /\ last = NoOp
    /\ steps = 0
    /\ note = NoNotes
    /\ form = NoForm
    /\ life = Listening
    /\ backend = "up"

GenerateOnce ==
    /\ steps = 0
    /\ steps' = 1
    /\ OthersIdle
    /\ \E c \in Clients, start \in GenWindowStarts, end \in GenWindowEnds,
          slotMinStr \in GenSlotTexts, slotTitleStr \in {Undefined, "Office hours"} :
          generateTimeSlots(c, "2024-01-01", start, end, slotMinStr, slotTitleStr)

NextGen == GenerateOnce

SpecGen == InitGen /\ [][NextGen]_vars

\* ------------------------------------------------- mounting and leaving
\* The clients open the calendar over the persisted collection, use it for
\* up to MaxLifeSteps actions, and leave.
InitLife ==
    /\ store \in InitStores
    /\ events = [c \in Clients |-> <<>>]
    /\ statusFilter = [c \in Clients |-> "all"]
    /\ nextUid = Len(store) + 1
    /\ last = NoOp
    /\ steps = 0
    /\ note = NoNotes
    /\ form = NoForm
    /\ life = [Listening EXCEPT !.cal = [c \in Clients |-> Unmounted]]
    /\ backend = "up"

Mount(c) == mount(c) /\ UNCHANGED <<steps, note, form, backend>>

Unmount(c) == unmount(c) /\ UNCHANGED <<steps, note, form, backend>>

NextLife ==
    \/ \E c \in Clients : Mount(c)
    \/ \E c \in Clients : Unmount(c)
    \/ steps < MaxLifeSteps /\ Next

SpecLife == InitLife /\ [][NextLife]_vars

\* -------------------------------------------------- a failing backend
\* The calendar over a backend that accepts every call or rejects every
\* call, for up to MaxFaultSteps actions.
InitFault ==
    /\ store \in InitStores
    /\ events = [c \in Clients |-> <<>>]
    /\ statusFilter = [c \in Clients |-> "all"]
    /\ nextUid = Len(store) + 1
    /\ last = NoOp
    /\ steps = 0
    /\ note = NoNotes
    /\ form = NoForm
    /\ life = Listening
    /\ backend \in {"up", "down"}

SnapshotError(c) ==
    snapshotError(c) /\ UNCHANGED <<steps, note, form, backend>>

NextFault ==
    \/ \E c \in Clients : SnapshotError(c)
    \/ steps < MaxFaultSteps /\ Next

SpecFault == InitFault /\ [][NextFault]_vars

\* ---------------------------------------------------- the editor alone
\* The notes page, in either version, with an empty collection: the user
\* types, picks files and saves; each await of handleSave settles either
\* way.
Texts == {"", " ", "T"}

Picks ==
    {NoFile, [type |-> "txt", mb |-> 1], [type |-> "png", mb |-> 2],
     [type |-> "exe", mb |-> 1], [type |-> "pdf", mb |-> MAX_MB + 1],
     [type |-> "pdf", mb |-> MAX_MB_SignIn + 1]}

Percents == {50, 100}

InitSave ==
    /\ store = <<>>
    /\ events = [c \in Clients |-> <<>>]
    /\ statusFilter = [c \in Clients |-> "all"]
    /\ nextUid = 1
    /\ last = NoOp
    /\ steps = 0
    /\ life = Listening
    /\ backend = "up"
    /\ \E withAnon \in BOOLEAN :
          /\ note = [NoNotes EXCEPT !.withAnon = withAnon]
          /\ form = [NoForm EXCEPT
                        !.progress = IF withAnon THEN NoProgress ELSE 0]

EditorOnly ==
    UNCHANGED <<store, events, statusFilter, nextUid, steps, life, backend>>

TypeTitle == EditorOnly /\ \E t \in Texts : setTitle(t)

TypeBody == EditorOnly /\ \E t \in Texts : setBody(t)

PickFile ==
    /\ EditorOnly
    /\ \E f \in Picks, ok \in BOOLEAN :
          \E m \in 1..f.mb :
             /\ ~isImage(f.type) => ok /\ m = f.mb
             /\ onPickFile(f, m, ok)

Save == EditorOnly /\ \E viaKey \in BOOLEAN : handleSave(viaKey)

AnonDone == EditorOnly /\ \E ok \in BOOLEAN : anonDone(ok)

UploadProgress == EditorOnly /\ \E pct \in Percents : uploadProgress(pct)

UploadComplete == uploadComplete /\ EditorOnly

UploadError == uploadError /\ EditorOnly

UploadTimeout == uploadTimeout /\ EditorOnly

UrlDone == EditorOnly /\ \E ok \in BOOLEAN : urlDone(ok)

WriteDone == EditorOnly /\ \E ok \in BOOLEAN : writeDone(ok)

NextSave ==
    \/ TypeTitle
    \/ TypeBody
    \/ PickFile
    \/ Save
    \/ AnonDone
    \/ UploadProgress
    \/ UploadComplete
    \/ UploadError
    \/ UploadTimeout
    \/ UrlDone
    \/ WriteDone

SpecSave == InitSave /\ [][NextSave]_vars

\* --------------------------------------------------- what the user enters
\* Either page alone: the editor as above, or one action of the calendar
\* on the empty collection.
NextInput ==
    \/ steps = 0 /\ NextSave
    \/ steps = 0 /\ last = NoOp /\ Next

SpecInput == InitSave /\ [][NextInput]_vars

\* ------------------------------------------------------ one click alone
\* The collection holds some of the events of GenPool and of a slot on
\* hold; the snapshot of the clients holds some of them too, whether still
\* persisted or not.  One step is one click on an event of the snapshot.
ClickPool == GenPool \cup {pendingSlot(5, GenDayStart + 60, GenDayStart + 75)}

InitClick ==
    /\ \E S \in SUBSET ClickPool, T \in SUBSET ClickPool :
          /\ store = [i \in {d.id : d \in S} |-> CHOOSE d \in S : d.id = i]
          /\ events = [c \in Clients |-> SortByStart(T)]
    /\ statusFilter = [c \in Clients |-> "all"]
    /\ nextUid = GenFirstUid
    /\ last = NoOp
    /\ steps = 0
    /\ note = NoNotes
    /\ form = NoForm
    /\ life = Listening
    /\ backend = "up"

ClickOnce ==
    /\ steps = 0
    /\ steps' = 1
    /\ OthersIdle
    /\ \E c \in Clients : \E id \in Ids(c), name \in Names, del \in BOOLEAN :
          handleEventClick(c, id, name, del)

NextClick == ClickOnce

SpecClick == InitClick /\ [][NextClick]_vars

\* ------------------------------------------------------- one action alone
\* One action of the calendar from the same collections and snapshots,
\* with any number of snapshots before and after it.
NextAct == steps = 0 /\ Next

SpecAct == InitClick /\ [][NextAct]_vars

\* ------------------------------------------------------- overlaps alone
\* Two events on a grid of instants, with or without an end, are in the
\* collection and in the snapshot; one step compares two of them.
OvStep == 15
OvInstants == {k * OvStep : k \in 0..MaxOvPoints}

OvEvent(id, s, e) ==
    plainEvent(id, "Math", isoLocalDate(s),
               IF e = NoEnd THEN NoEnd ELSE isoLocalDate(e), FALSE)

OvShapes ==
    {<<s, e>> \in OvInstants \X (OvInstants \cup {NoEnd}) : e = NoEnd \/ s < e}

InitOverlaps ==
    /\ \E x \in OvShapes, y \in OvShapes :
          store = [i \in {1, 2} |-> IF i = 1 THEN OvEvent(1, x[1], x[2])
                                    ELSE OvEvent(2, y[1], y[2])]
    /\ events = [c \in Clients |-> SnapshotList(store)]
    /\ statusFilter = [c \in Clients |-> "all"]
    /\ nextUid = 3
    /\ last = NoOp
    /\ steps = 0
    /\ note = NoNotes
    /\ form = NoForm
    /\ life = Listening
    /\ backend = "up"

CompareOnce ==
    /\ steps = 0
    /\ steps' = 1
    /\ OthersIdle
    /\ \E c \in Clients : \E i \in DOMAIN events[c], j \in DOMAIN events[c] :
          last' = [handler |-> "overlaps", client |-> c,
                   a |-> events[c][i], b |-> events[c][j],
                   result |-> overlaps(events[c][i], events[c][j]),
                   writes |-> NoWrites]
    /\ UNCHANGED <<store, events, statusFilter, nextUid>>

NextOverlaps == CompareOnce

SpecOverlaps == InitOverlaps /\ [][NextOverlaps]_vars

\* ------------------------------------------------------- notes page alone
\* The collection holds up to MaxNotes notes saved earlier, each without
\* attachment or with its object in storage; the page has just mounted, in
\* the version of note.tsx or in the one that signs in first.
SavedNotes ==
    {S \in SUBSET {NoteDoc(id, path) : id \in 1..MaxNotes, path \in 0..MaxNotes} :
        /\ \A d \in S : d.storagePath \in {NoPath, d.id}
        /\ \A d \in S, o \in S : d.id = o.id => d = o}

InitNote ==
    /\ form = NoForm
    /\ life = Listening
    /\ backend = "up"
    /\ store = <<>>
    /\ events = [c \in Clients |-> <<>>]
    /\ statusFilter = [c \in Clients |-> "all"]
    /\ nextUid = 1
    /\ last = NoOp
    /\ steps = 0
    /\ \E S \in SavedNotes, withAnon \in BOOLEAN :
          note = [docs |-> [i \in {d.id : d \in S} |-> CHOOSE d \in S : d.id = i],
                  blobs |-> {d.storagePath : d \in S} \ {NoPath},
                  notes |-> <<>>, selected |-> NoSelection,
                  withAnon |-> withAnon]

CalendarIdle ==
    UNCHANGED <<store, events, statusFilter, nextUid, steps, form, life, backend>>

NoteSnapshot == noteSnapshot /\ CalendarIdle

OpenNote == CalendarIdle /\ \E n \in Range(note.notes) : openNote(n)

CloseNote == closeNote /\ CalendarIdle

Delete ==
    /\ CalendarIdle
    /\ \E n \in Range(note.notes), ok \in BOOLEAN, anonOk \in BOOLEAN,
          docOk \in BOOLEAN, blobOk \in BOOLEAN :
        /\ ~ok => anonOk /\ docOk /\ blobOk
        /\ handleDelete(n, ok, anonOk, docOk, blobOk)

NextNote ==
    \/ NoteSnapshot
    \/ OpenNote
    \/ CloseNote
    \/ Delete

SpecNote == InitNote /\ [][NextNote]_vars

\* ------------------------------------------ the notes page and its listener
\* The notes page from before its first render, over a collection of notes
\* saved earlier.  Handlers run while the page is mounted, snapshots arrive
\* while a listener is registered.
InitPage ==
    /\ form = NoForm
    /\ life = [Listening EXCEPT !.page = PageUnmounted]
    /\ backend = "up"
    /\ store = <<>>
    /\ events = [c \in Clients |-> <<>>]
    /\ statusFilter = [c \in Clients |-> "all"]
    /\ nextUid = 1
    /\ last = NoOp
    /\ steps = 0
    /\ \E S \in SavedNotes, withAnon \in BOOLEAN :
          note = [docs |-> [i \in {d.id : d \in S} |-> CHOOSE d \in S : d.id = i],
                  blobs |-> {d.storagePath : d \in S} \ {NoPath},
                  notes |-> <<>>, selected |-> NoSelection,
                  withAnon |-> withAnon]

PageOnly ==
    UNCHANGED <<store, events, statusFilter, nextUid, steps, form, backend>>

PageMount == pageMount /\ PageOnly

StartListener == PageOnly /\ \E ok \in BOOLEAN : startListener(ok)

PageUnmount == pageUnmount /\ PageOnly

PageSnapshot ==
    /\ life.page.listeners > 0
    /\ life.page.registered < MaxRegistered
    /\ noteSnapshot
    /\ life' = pageEffect(/\ note.selected # NoSelection
                           /\ \E i \in DOMAIN note'.notes :
                                 note'.notes[i].id = note.selected.id)
    /\ PageOnly

PageOpen ==
    /\ life.page.mounted
    /\ life.page.registered < MaxRegistered
    /\ \E n \in Range(note.notes) : openNote(n)
    /\ life' = pageEffect(TRUE)
    /\ PageOnly

PageClose ==
    /\ life.page.mounted
    /\ life.page.registered < MaxRegistered
    /\ closeNote
    /\ life' = pageEffect(TRUE)
    /\ PageOnly

PageDelete ==
    /\ life.page.mounted
    /\ life.page.registered < MaxRegistered
    /\ \E n \in Range(note.notes), ok \in BOOLEAN, anonOk \in BOOLEAN,
          docOk \in BOOLEAN, blobOk \in BOOLEAN :
        /\ ~ok => anonOk /\ docOk /\ blobOk
        /\ handleDelete(n, ok, anonOk, docOk, blobOk)
    /\ life' = pageEffect(note'.selected # note.selected)
    /\ PageOnly

NextPage ==
    \/ PageMount
    \/ StartListener
    \/ PageUnmount
    \/ PageSnapshot
    \/ PageOpen
    \/ PageClose
    \/ PageDelete

SpecPage == InitPage /\ [][NextPage]_vars

\* ----------------------------------------------------------- properties
Generated == last.handler = "generateTimeSlots"

GenRan == Generated /\ last.outcome \in {"created", "none"}

Interval(e) == <<getTime(e.start), getTime(e.end)>>

CreatedIntervals == {Interval(last.created[i]) : i \in DOMAIN last.created}

WinStart == last.start.min
WinEnd == last.end.min

\* The candidates of the grid of the last generation that fit the window.
GridIntervals ==
    {<<WinStart + i * last.slotMin, WinStart + (i + 1) * last.slotMin>> :
        i \in {k \in 0..(WinEnd - WinStart) :
                  WinStart + (k + 1) * last.slotMin <= WinEnd}}

FreeOf(evs, iv) ==
    \A k \in DOMAIN evs :
        ~overlaps(evs[k], [start |-> isoLocalDate(iv[1]), end |-> isoLocalDate(iv[2])])

IsExample ==
    /\ GenRan
    /\ WinStart = 840 /\ WinEnd = 960 /\ last.slotMin = 15
    /\ Len(events[last.client]) = 1
    /\ events[last.client][1].start = 1430
    /\ events[last.client][1].end = 1500

\* C7: the slots generated are exactly the grid candidates
\* [start + i*d, start + (i+1)*d) with end <= windowEnd that overlap no event
\* of the snapshot, whatever its status; a dropped candidate does not move
\* the later ones (a 14:30-15:00 event leaves 6 of the 8 slots of the
\* 14:00-16:00 / 15 minute grid, the 14:30 and 14:45 ones being dropped).
C7_GridExactlyFiltered ==
    GenRan =>
        /\ CreatedIntervals =
              {iv \in GridIntervals : FreeOf(events[last.client], iv)}
        /\ Cardinality(CreatedIntervals) = Len(last.created)
        /\ IsExample =>
              CreatedIntervals =
                 {<<840 + 15 * i, 855 + 15 * i>> : i \in {0, 1, 4, 5, 6, 7}}

C7_Witness ==
    /\ IsExample
    /\ Len(last.created) = 6
    /\ events[last.client][1].status = "booked"

\* C8: on an empty snapshot a valid window of L minutes yields exactly
\* floor(L / d) slots, the i-th being [windowStart + i*d, windowStart + (i+1)*d),
\* all of status 'available', and they are persisted.
C8_EmptySnapshotCount ==
    (GenRan /\ events[last.client] = <<>>) =>
        LET L == WinEnd - WinStart
            d == last.slotMin
        IN  /\ Len(last.created) = L \div d
            /\ \A i \in DOMAIN last.created :
                  /\ Interval(last.created[i]) =
                        <<WinStart + (i - 1) * d, WinStart + i * d>>
                  /\ last.created[i].status = "available"
                  /\ last.created[i].id \in DOMAIN store
                  /\ store[last.created[i].id] = last.created[i]
            /\ Cardinality(DOMAIN store) = L \div d

C8_Witness ==
    /\ GenRan /\ events[last.client] = <<>>
    /\ WinStart = 840 /\ WinEnd = 960 /\ last.slotMin = 15
    /\ Len(last.created) = 8
    /\ Interval(last.created[1]) = <<840, 855>>
    /\ Interval(last.created[8]) = <<945, 960>>

\* C9 as claimed: an entered slot length below 5 (0 and negative values
\* included) gives an effective length of exactly 5, an entered length of
\* 5 or more is used as entered.
C9_ClampBelowFive ==
    (Generated /\ last.outcome # "cancelled" /\ last.slotMinStr.kind = "int") =>
        /\ last.slotMinStr.val < MinSlotMinutes => last.slotMin = MinSlotMinutes
        /\ last.slotMinStr.val >= MinSlotMinutes => last.slotMin = last.slotMinStr.val

\* C10: every slot created has end = start + d, hence end after start, and
\* lies inside the window; a trailing remainder shorter than d gives no
\* slot and no slot is shortened to fit.
C10_SlotsWholeAndInside ==
    GenRan =>
        /\ \A i \in DOMAIN last.created :
              LET iv == Interval(last.created[i]) IN
              /\ iv[2] = iv[1] + last.slotMin
              /\ iv[2] > iv[1]
              /\ iv[1] >= WinStart
              /\ iv[2] <= WinEnd
        /\ Len(last.created) <= (WinEnd - WinStart) \div last.slotMin

C10_Witness ==
    /\ GenRan
    /\ (WinEnd - WinStart) % last.slotMin # 0
    /\ Len(last.created) >= 2
    /\ Interval(last.created[Len(last.created)])[2] < WinEnd

\* ---------------------------------------------------- booking properties
Clicked == last.handler = "handleEventClick"

IsBookingWrite(w) ==
    w.op = "update" /\ "status" \in DOMAIN w.patch /\ w.patch.status = "booked"

SameStudentOverlap(a, b) ==
    /\ a.status = "booked" /\ b.status = "booked"
    /\ a.studentName = b.studentName
    /\ overlaps(a, b)

\* C1 as claimed: no two distinct booked events of the same student overlap,
\* in any reachable state of the store.
C1_NoDoubleBooking ==
    \A i \in DOMAIN store, j \in DOMAIN store :
        i # j => ~SameStudentOverlap(store[i], store[j])

\* The click that has just been handled was on an available slot of the
\* snapshot, with a name entered.
ClickedAvailable(l, evs) ==
    /\ l.handler = "handleEventClick"
    /\ hasEvent(evs, l.id)
    /\ findEvent(evs, l.id).status = "available"
    /\ l.name # Undefined

SnapshotConflict(l, evs) ==
    \E k \in DOMAIN evs :
        /\ evs[k].status = "booked"
        /\ evs[k].studentName = l.name
        /\ overlaps(evs[k], findEvent(evs, l.id))

\* C2: a click on an available slot with a name that has an overlapping
\* booked event in the snapshot is refused: no write is issued, the store
\* and the snapshot stay as they are.
C2_ConflictRefused ==
    [][ (ClickedAvailable(last', events[last'.client])
            /\ SnapshotConflict(last', events[last'.client]))
        => /\ last'.writes = NoWrites
           /\ store' = store
           /\ events' = events ]_vars

C2_Witness ==
    /\ ClickedAvailable(last, events[last.client])
    /\ SnapshotConflict(last, events[last.client])
    /\ last.writes = NoWrites
    /\ last.id \in DOMAIN store
    /\ store[last.id].status = "available"
    /\ store[last.id].studentName = Undefined
    /\ store[last.id].color = SlotColor

\* C3: a click on an available slot with a name that has no overlapping
\* booked event in the snapshot issues exactly one write for that event; it
\* sets status, studentName and color together and leaves id, title, start
\* and end, and every other document, as they were.
C3_BookingIsOneWrite ==
    [][ (ClickedAvailable(last', events[last'.client])
            /\ ~SnapshotConflict(last', events[last'.client]))
        => /\ last'.writes =
                <<[op |-> "update", id |-> last'.id,
                   patch |-> [status |-> "booked", studentName |-> last'.name,
                              color |-> BookedColor]]>>
           /\ DOMAIN store' = DOMAIN store
           /\ \A i \in DOMAIN store :
                 store'[i] =
                    IF i = last'.id
                    THEN [store[i] EXCEPT !.status = "booked",
                                          !.studentName = last'.name,
                                          !.color = BookedColor]
                    ELSE store[i] ]_vars

C3_Witness ==
    /\ ClickedAvailable(last, events[last.client])
    /\ ~SnapshotConflict(last, events[last.client])
    /\ Len(last.writes) = 1
    /\ last.id \in DOMAIN store
    /\ store[last.id].status = "booked"
    /\ store[last.id].studentName = last.name
    /\ store[last.id].title = findEvent(events[last.client], last.id).title
    /\ store[last.id].start = findEvent(events[last.client], last.id).start

\* C4: handleEventClick issues a booking write only when the clicked event
\* is exactly 'available' in the client's snapshot and the name entered is
\* not empty; an empty or cancelled prompt issues no write.
C4_BookingWriteGuarded ==
    Clicked =>
        /\ (\E k \in DOMAIN last.writes : IsBookingWrite(last.writes[k]))
              => /\ hasEvent(events[last.client], last.id)
                 /\ findEvent(events[last.client], last.id).status = "available"
                 /\ last.name # Undefined
                 /\ last.name # ""
        /\ (/\ hasEvent(events[last.client], last.id)
            /\ findEvent(events[last.client], last.id).status = "available"
            /\ last.name = Undefined)
              => last.writes = NoWrites

C4_Witness ==
    /\ Clicked
    /\ Len(last.writes) = 1
    /\ IsBookingWrite(last.writes[1])
    /\ findEvent(events[last.client], last.id).status = "available"
    /\ last.name = "Sam"

\* C5: the store accepts a booking write whatever the status of the slot in
\* the store: two clients that both see a slot as available can both book it
\* under different names, and the slot keeps the name of the later writer.
C5_LaterBookingWins ==
    [][ (ClickedAvailable(last', events[last'.client])
            /\ Len(last'.writes) = 1
            /\ last'.id \in DOMAIN store)
        => /\ store'[last'.id].status = "booked"
           /\ store'[last'.id].studentName = last'.name ]_vars

C5_Witness ==
    /\ Clicked /\ last.outcome = "booked"
    /\ last.before.id = last.id
    /\ last.before.client # last.client
    /\ last.before.name # last.name
    /\ \A c \in Clients :
          /\ hasEvent(events[c], last.id)
          /\ findEvent(events[c], last.id).status = "available"
    /\ store[last.id].status = "booked"
    /\ store[last.id].studentName = last.name

\* C6 as claimed: no slot written by generateTimeSlots overlaps an event
\* that was in the store when the slot was written, whatever its status.
C6_NoSlotOverPersisted ==
    [][ last'.handler = "generateTimeSlots"
        => \A k \in DOMAIN last'.created, i \in DOMAIN store :
              ~overlaps(store[i], last'.created[k]) ]_vars

\* ------------------------------------------ more slot generation properties
\* C11: the slots of one generateTimeSlots call are strictly increasing in
\* start time, pairwise non-overlapping, and none overlaps an event of the
\* snapshot they were filtered against.
C11_OrderedAndDisjoint ==
    GenRan =>
        /\ \A i \in DOMAIN last.created, j \in DOMAIN last.created :
              i < j =>
                 /\ getTime(last.created[i].start) < getTime(last.created[j].start)
                 /\ getTime(last.created[i].end) <= getTime(last.created[j].start)
                 /\ ~overlaps(last.created[i], last.created[j])
        /\ \A i \in DOMAIN last.created, k \in DOMAIN events[last.client] :
              /\ ~overlaps(events[last.client][k], last.created[i])
              /\ ~overlaps(last.created[i], events[last.client][k])

C11_Witness ==
    /\ GenRan
    /\ Len(last.created) >= 3
    /\ Len(events[last.client]) >= 2
    /\ Len(last.created) < Cardinality(GridIntervals)

\* The grid of a generation record, and the two cases in which nothing is
\* to be created.
GridOf(l) ==
    {<<l.start.min + i * l.slotMin, l.start.min + (i + 1) * l.slotMin>> :
        i \in {k \in 0..(l.end.min - l.start.min) :
                  l.start.min + (k + 1) * l.slotMin <= l.end.min}}

Degenerate(l) ==
    /\ l.handler = "generateTimeSlots" /\ l.outcome # "cancelled"
    /\ ~l.start.nan /\ ~l.end.nan
    /\ l.end.min <= l.start.min

AllConflict(l, evs) ==
    /\ l.handler = "generateTimeSlots" /\ l.outcome # "cancelled"
    /\ ~l.start.nan /\ ~l.end.nan
    /\ l.end.min > l.start.min
    /\ \A iv \in GridOf(l) : ~FreeOf(evs, iv)

\* C12: on a degenerate window (end <= start), or when every candidate
\* conflicts with an event of the snapshot, generateTimeSlots creates no
\* slot and issues no write; store and snapshot are unchanged.
C12_NothingToCreate ==
    [][ (Degenerate(last') \/ AllConflict(last', events[last'.client]))
        => /\ last'.created = <<>>
           /\ last'.writes = NoWrites
           /\ store' = store
           /\ events' = events ]_vars

C12_Witness ==
    /\ AllConflict(last, events[last.client])
    /\ GridOf(last) # {}
    /\ last.writes = NoWrites
    /\ last.created = <<>>
    /\ DOMAIN store = {events[last.client][k].id : k \in DOMAIN events[last.client]}

\* ------------------------------------------------------ overlap properties
Compared == last.handler = "overlaps"

\* The instant of a persisted clock reading, read off the grid of instants.
InstantOf(str) == CHOOSE m \in OvInstants : isoLocalDate(m) = str

From(e) == InstantOf(e.start)
To(e) == IF e.end = NoEnd THEN InstantOf(e.start) ELSE InstantOf(e.end)

IsPoint(e) == e.end = NoEnd
IsSpan(e, s, t) == e.end # NoEnd /\ From(e) = s /\ To(e) = t

\* C13: overlaps is symmetric: overlaps(a, b) = overlaps(b, a) for all
\* events a and b, with or without an end.
C13_Symmetric ==
    Compared => last.result = overlaps(last.b, last.a)

C13_Witness ==
    /\ Compared
    /\ IsPoint(last.a) /\ ~IsPoint(last.b)
    /\ last.result
    /\ overlaps(last.b, last.a)

\* C14: two intervals that only touch at an endpoint (a.end = b.start) do
\* not overlap, in either argument order; [0,30) and [30,60) is the example.
C14_TouchingApart ==
    Compared =>
        /\ (last.a.end # NoEnd /\ last.a.end = last.b.start) => ~last.result
        /\ (last.b.end # NoEnd /\ last.b.end = last.a.start) => ~last.result

C14_Witness ==
    /\ Compared
    /\ IsSpan(last.a, 0, 30) /\ IsSpan(last.b, 30, 60)
    /\ ~last.result

\* The event without an end of the compared pair is at t, the other one
\* spans [s, e) with s < e.
PointAgainstSpan(p, q) == IsPoint(p) /\ ~IsPoint(q) /\ From(q) < To(q)

\* C15 as stated: an event with no end at instant t and an event spanning
\* [s, e), s < e, overlap if and only if s <= t < e.
C15_PointInHalfOpen ==
    Compared =>
        /\ PointAgainstSpan(last.a, last.b) =>
              (last.result <=>
                  (From(last.b) <= From(last.a) /\ From(last.a) < To(last.b)))
        /\ PointAgainstSpan(last.b, last.a) =>
              (last.result <=>
                  (From(last.a) <= From(last.b) /\ From(last.b) < To(last.a)))

\* C15 amended: an event with no end at instant t and an event spanning
\* [s, e), s < e, overlap if and only if s < t < e.
C15_PointStrictlyInside ==
    Compared =>
        /\ PointAgainstSpan(last.a, last.b) =>
              (last.result <=>
                  (From(last.b) < From(last.a) /\ From(last.a) < To(last.b)))
        /\ PointAgainstSpan(last.b, last.a) =>
              (last.result <=>
                  (From(last.a) < From(last.b) /\ From(last.b) < To(last.a)))

C15_Witness ==
    /\ Compared
    /\ PointAgainstSpan(last.a, last.b)
    /\ From(last.a) = From(last.b)
    /\ ~last.result

\* C16: overlaps(a, b) equals aStart < bEnd and bStart < aEnd with a
\* missing end taken equal to the start; so an event without an end
\* overlaps only intervals that strictly contain its instant, one that sits
\* on a boundary of the other interval does not overlap it, and [0,30) and
\* [15,45) overlap.
C16_StrictComparison ==
    Compared =>
        /\ last.result <=>
              (From(last.a) < To(last.b) /\ From(last.b) < To(last.a))
        /\ (IsPoint(last.a) /\ last.result) =>
              (From(last.b) < From(last.a) /\ From(last.a) < To(last.b))
        /\ (IsPoint(last.a) /\ From(last.a) \in {From(last.b), To(last.b)})
              => ~last.result
        /\ (IsSpan(last.a, 0, 30) /\ IsSpan(last.b, 15, 45)) => last.result

C16_Witness ==
    /\ Compared
    /\ IsSpan(last.a, 0, 30) /\ IsSpan(last.b, 15, 45)
    /\ last.result

\* ------------------------------------------------- status life cycle
BookedNamed ==
    \A id \in DOMAIN store :
        store[id].status = "booked" => store[id].studentName \notin {Undefined, ""}

NameKept ==
    \A id \in DOMAIN store \cap DOMAIN store' :
        /\ store[id].studentName # Undefined => store'[id].studentName # Undefined
        /\ (store[id].status # "booked" /\ store'[id].status = "booked")
              => /\ Len(last'.writes) = 1
                 /\ last'.writes[1].op = "update"
                 /\ last'.writes[1].id = id
                 /\ last'.writes[1].patch.status = "booked"
                 /\ last'.writes[1].patch.studentName \notin {Undefined, ""}

\* C17: in every reachable state of the store every event with status
\* 'booked' has a non-empty studentName; the status and the name come with
\* the same write and no later action takes the name away.
C17_BookedHasName == [][BookedNamed /\ BookedNamed' /\ NameKept]_vars

C17_Witness ==
    /\ last.handler = "eventDrop" /\ last.outcome = "moved"
    /\ last.id \in DOMAIN store
    /\ store[last.id].status = "booked"
    /\ store[last.id].studentName = "Sam"

\* C18: the only status change a handler performs is available -> booked:
\* nothing sets 'pending', nothing turns a 'booked' event back, and a new
\* event has no status or the status 'available'.
C18_OnlyAvailableToBooked ==
    [][ /\ \A id \in DOMAIN store \cap DOMAIN store' :
              \/ store'[id].status = store[id].status
              \/ store[id].status = "available" /\ store'[id].status = "booked"
        /\ \A id \in DOMAIN store' \ DOMAIN store :
              store'[id].status \in {Undefined, "available"} ]_vars

C18_Witness ==
    /\ last.handler = "handleEventClick" /\ last.outcome = "booked"
    /\ findEvent(events[last.client], last.id).status = "available"
    /\ last.id \in DOMAIN store
    /\ store[last.id].status = "booked"
    /\ \E id \in DOMAIN store : store[id].status = Undefined

\* The event of the snapshot that a click names is not 'available'.
ClickedOther(l, evs) ==
    /\ l.handler = "handleEventClick"
    /\ hasEvent(evs, l.id)
    /\ findEvent(evs, l.id).status # "available"

\* C19: a click on an event that is not 'available' in the snapshot
\* (booked, pending or without status) never changes its status or
\* studentName: a confirmed delete issues exactly one delete of that event,
\* an unconfirmed one issues no write.
C19_OtherClickOnlyDeletes ==
    [][ ClickedOther(last', events[last'.client]) =>
          /\ \A id \in DOMAIN store \cap DOMAIN store' : store'[id] = store[id]
          /\ last'.del =>
                /\ last'.writes = <<[op |-> "delete", id |-> last'.id]>>
                /\ DOMAIN store' = DOMAIN store \ {last'.id}
          /\ ~last'.del =>
                /\ last'.writes = NoWrites
                /\ store' = store ]_vars

C19_Witness ==
    /\ ClickedOther(last, events[last.client])
    /\ findEvent(events[last.client], last.id).status = "pending"
    /\ last.outcome = "deleted"
    /\ last.id \notin DOMAIN store
    /\ \E id \in DOMAIN store : store[id].status = "booked"

\* ------------------------------------------------------ deleting a note
\* The step just taken is a confirmed handleDelete of a note that carries
\* a storagePath.
DeletedWithPath(l) ==
    l.handler = "handleDelete" /\ l.ok /\ l.storagePath # NoPath

CallsAfterSignIn(l) == SelectSeq(l.calls, LAMBDA x : x # "ensureAnon")

\* What a failed blob delete leaves: a warning in the log and nothing else.
BlobFailureOnlyLogged(l) ==
    (l.blobFailed /\ l.recordDeleted) =>
        /\ l.warnings = 1
        /\ l.alerts = 0
        /\ l.id \notin DOMAIN note'.docs
        /\ l.wasSelected => note'.selected = NoSelection

\* C20 as stated: a confirmed handleDelete of a note with a storagePath
\* issues the record delete and then one blob delete; a failed blob delete
\* is only logged: the record stays deleted, no error is shown, and the
\* selection is cleared if the deleted note was selected.
C20_RecordThenBlob ==
    [][ DeletedWithPath(last') =>
          /\ CallsAfterSignIn(last') = <<"deleteDoc", "deleteObject">>
          /\ BlobFailureOnlyLogged(last') ]_vars

\* C20 amended: the record delete is issued once sign-in (where the page
\* signs in) has succeeded, and the one blob delete follows only a record
\* delete that succeeded; a failed blob delete is only logged, as stated.
C20_BlobAfterDeletedRecord ==
    [][ DeletedWithPath(last') =>
          /\ CallsAfterSignIn(last') \in
                {<<>>, <<"deleteDoc">>, <<"deleteDoc", "deleteObject">>}
          /\ CallsAfterSignIn(last') = <<>> => note.withAnon
          /\ "deleteObject" \in Range(last'.calls) <=> last'.recordDeleted
          /\ last'.recordDeleted => last'.id \notin DOMAIN note'.docs
          /\ ~last'.recordDeleted =>
                /\ last'.alerts = 1
                /\ note'.docs = note.docs /\ note'.blobs = note.blobs
                /\ note'.selected = note.selected
          /\ BlobFailureOnlyLogged(last') ]_vars

C20_Witness ==
    /\ DeletedWithPath(last)
    /\ last.calls = <<"deleteDoc", "deleteObject">>
    /\ last.blobFailed /\ last.wasSelected
    /\ last.warnings = 1 /\ last.alerts = 0
    /\ last.id \notin DOMAIN note.docs
    /\ last.storagePath \in note.blobs
    /\ note.selected = NoSelection

C26_DeletedStaysDeleted ==
    [][ \A id \in DOMAIN store' \ DOMAIN store :
            id >= nextUid /\ id < nextUid' ]_vars

C26_Witness ==
    /\ last.handler = "handleEventClick" /\ last.outcome = "booked"
    /\ hasEvent(events[last.client], last.id)
    /\ last.id < nextUid
    /\ last.id \notin DOMAIN store

\* The step just taken is a drop or a resize delivered to client code.
Dragged(l) == l.handler \in {"eventDrop", "eventResize"}

\* C28: a drop writes only start, end and allDay, a resize only end;
\* status and studentName of every event stay as they are, and the write
\* is issued without an overlap check: it is withheld only when the patch
\* of a drop carries an undefined end (the event had no end, or it left the
\* all-day row).
C28_DragWritesTimesOnly ==
    [][ Dragged(last') =>
          /\ Len(last'.writes) <= 1
          /\ \A i \in DOMAIN last'.writes :
                /\ last'.writes[i].op = "update"
                /\ last'.writes[i].id = last'.id
                /\ DOMAIN last'.writes[i].patch \subseteq
                      (IF last'.handler = "eventDrop"
                       THEN {"start", "end", "allDay"} ELSE {"end"})
          /\ DOMAIN store' = DOMAIN store
          /\ \A id \in DOMAIN store :
                /\ store'[id].status = store[id].status
                /\ store'[id].studentName = store[id].studentName
                /\ store'[id].title = store[id].title
                /\ id # last'.id => store'[id] = store[id]
          /\ last'.writes = NoWrites =>
                /\ last'.handler = "eventDrop" /\ last'.outcome = "rejected"
                /\ \/ findEvent(events[last'.client], last'.id).end = NoEnd
                   \/ findEvent(events[last'.client], last'.id).allDay ]_vars

C28_Witness ==
    /\ last.handler = "eventDrop" /\ last.outcome = "moved"
    /\ last.id \in DOMAIN store
    /\ \E k \in DOMAIN events[last.client] :
          /\ events[last.client][k].id # last.id
          /\ overlaps(events[last.client][k], store[last.id])

\* ------------------------------------------------------------- listeners
\* The listener of a calendar component: none before the mount, one while
\* mounted, none after the one unsubscribe of the unmount.
ListenerOk(l) ==
    /\ l.registered <= 1 /\ l.unsubs <= 1
    /\ l.listeners = (IF l.mounted THEN 1 ELSE 0)
    /\ l.mounted => l.registered = 1 /\ l.unsubs = 0
    /\ ~l.mounted => l.unsubs = l.registered

\* C21: the subscription of the calendar is registered once, at mount,
\* stays registered across every snapshot and every user action, and is
\* unsubscribed exactly once, at unmount; after that no snapshot is applied
\* to the state of the component.
C21_SubscribedWhileMounted ==
    [][ \A c \in Clients :
          /\ ListenerOk(life.cal[c]) /\ ListenerOk(life'.cal[c])
          /\ life'.cal[c] # life.cal[c] =>
                last'.handler \in {"mount", "unmount"} /\ last'.client = c
          /\ life.cal[c].unsubs = 1 => events'[c] = events[c]
          /\ (last'.handler = "onSnapshot" /\ last'.client = c) =>
                life.cal[c].mounted /\ life.cal[c].listeners = 1 ]_vars

C21_Witness ==
    \E c \in Clients :
        /\ life.cal[c].unsubs = 1 /\ life.cal[c].listeners = 0
        /\ events[c] # <<>>
        /\ events[c] # SnapshotList(store)
        /\ last.handler \notin {"mount", "unmount", "onSnapshot"}

\* ------------------------------------------------------- failing calls
\* The step just taken issued a backend call that was rejected.
FailedCall(l) ==
    /\ backend = "down"
    /\ l.writes # NoWrites \/ l.handler = "onSnapshotError"

\* The step just taken told the user about an error: only the handlers of
\* the notes page have a catch that calls alert.
ErrorShown(l) ==
    /\ l.handler \in {"handleDelete", "handleSave"}
    /\ l.alerts > 0

\* C22: every failed backend call (event batch write, update, delete,
\* subscription error, note write, upload) ends in a state in which the
\* error has been reported to the user.
C22_FailuresReported == FailedCall(last) => ErrorShown(last)

\* ---------------------------------------------------------- saving a note
SaveStep(l) == l.handler = "handleSave"

\* The step just taken ended a handleSave call.
SaveEnded(l) == SaveStep(l) /\ l.outcome \in {"saved", "failed"}

\* C24: when the timeout timer fires during an upload that has neither
\* completed nor failed, the task is cancelled, handleSave fails with the
\* timeout error, no record is created and saving is false again; once the
\* upload has completed or failed the timer is no longer armed, so it
\* cancels nothing.
C24_TimeoutCancelsPendingUpload ==
    [][ /\ (SaveStep(last') /\ last'.phase = "timeout")
           => /\ form.run.pc = "upload"
              /\ last'.calls = form.run.calls \o <<"cancel">>
              /\ last'.outcome = "failed"
              /\ form'.uploadError = "timeout"
              /\ note'.docs = note.docs
              /\ ~form'.saving
              /\ form'.run = NoRun
        /\ form'.run.pc # "upload" => form'.run.timer # "armed" ]_vars

C24_Witness ==
    /\ SaveStep(last) /\ last.phase = "timeout" /\ last.outcome = "failed"
    /\ last.calls = <<"upload", "cancel">>
    /\ form.uploadError = "timeout"
    /\ ~form.saving
    /\ form.file # NoFile
    /\ DOMAIN note.docs = {}

\* The remote calls of a handleSave call after its sign-in.
afterSignIn(calls) ==
    IF calls # <<>> /\ calls[1] = "ensureAnon" THEN Tail(calls) ELSE calls

\* C27: a save with attachment runs upload, then getDownloadURL, then the
\* record write: addDoc is issued only after the upload has completed (the
\* object is in storage) and the URL was obtained, and a call that fails at
\* the upload or at the URL issues no addDoc and creates no record.
C27_UploadUrlRecord ==
    [][ /\ (form'.run.file # NoFile /\ form'.run.pc = "write")
           => /\ afterSignIn(form'.run.calls)
                    = <<"upload", "getDownloadURL", "addDoc">>
              /\ nextNoteId' \in note'.blobs
        /\ (SaveStep(last') /\ last'.outcome = "failed"
              /\ last'.phase \in {"upload", "timeout", "url"})
           => /\ \A i \in DOMAIN last'.calls : last'.calls[i] # "addDoc"
              /\ form'.run = NoRun
              /\ note'.docs = note.docs
        /\ note'.docs # note.docs
           => /\ SaveStep(last') /\ last'.phase = "write"
              /\ form.run.pc = "write" ]_vars

C27_Witness ==
    /\ SaveStep(last) /\ last.phase = "write" /\ last.outcome = "saved"
    /\ afterSignIn(last.calls) = <<"upload", "getDownloadURL", "addDoc">>
    /\ \E i \in DOMAIN note.docs :
          /\ note.docs[i].storagePath # NoPath
          /\ note.docs[i].storagePath \in note.blobs

\* C29: every handleSave call ends with saving = false and the progress
\* indicator reset; a failed call leaves title, body and picked file as
\* they were and sets the error message, a successful one clears the form;
\* and a press of Save or Ctrl/Cmd+S while saving is true starts nothing.
C29_SaveAlwaysSettles ==
    [][ /\ SaveEnded(last')
           => /\ ~form'.saving
              /\ form'.progress = progressReset
              /\ form'.run = NoRun
        /\ (SaveStep(last') /\ last'.outcome = "failed")
           => /\ form'.title = form.title
              /\ form'.body = form.body
              /\ form'.file = form.file
              /\ form'.uploadError # "null"
              /\ last'.alerts = 1
        /\ (SaveStep(last') /\ last'.outcome = "saved")
           => /\ form'.title = "" /\ form'.body = ""
              /\ form'.file = NoFile
        /\ (SaveStep(last') /\ last'.phase = "start" /\ form.saving)
           => /\ last'.outcome = "blocked"
              /\ form' = form /\ note' = note ]_vars

C29_Witness ==
    /\ SaveStep(last) /\ last.phase = "write" /\ last.outcome = "failed"
    /\ form.title = "T" /\ form.file # NoFile
    /\ form.uploadError = "failed"
    /\ ~form.saving

\* -------------------------------------------------- what the user enters
\* A file the picker of this page accepts.
Acceptable(f) == f = NoFile \/ (f.type \in ALLOWED /\ f.mb <= maxMb)

Creation(l) ==
    l.handler \in {"handleSelect", "handleDateClick", "addEventToday"}

\* C23: input that fails validation reaches no remote call: an event title
\* left empty or cancelled writes no event, a slot window whose end is
\* not after its start writes nothing, a save of a blank note starts no
\* upload and no record write, and a picked file of a disallowed type or
\* above the size limit does not become the pending attachment, so no
\* call uploads it.
C23_InvalidInputStopsEarly ==
    [][ /\ (Creation(last') /\ last'.title = Undefined)
           => last'.writes = NoWrites /\ store' = store
        /\ Degenerate(last')
           => last'.writes = NoWrites /\ store' = store
        /\ (SaveStep(last') /\ last'.phase = "start"
              /\ trim(form.title) = "" /\ trim(form.body) = ""
              /\ form.file = NoFile)
           => /\ last'.calls = <<>>
              /\ form' = form
              /\ note' = note
        /\ (last'.handler = "onPickFile" /\ ~Acceptable(last'.picked))
           => form'.file = form.file /\ last'.alerts = 1
        /\ Acceptable(form'.file)
        /\ Acceptable(form'.run.file) ]_vars

C23_Witness ==
    /\ last.handler = "onPickFile" /\ ~Acceptable(last.picked)
    /\ form.file # NoFile
    /\ form.title = " "

\* ---------------------------------------------------- the notes listener
\* C30: the notes page never has more than one listener registered, and
\* none while it is not mounted: every registration but the current one
\* was unsubscribed, an unmount unsubscribes the current one, and where the
\* page signs in first an unmount before ensureAnon has settled leaves
\* nothing registered, then or later.
C30_AtMostOneNotesListener ==
    /\ life.page.listeners \in {0, 1}
    /\ life.page.listeners = life.page.registered - life.page.unsubs
    /\ ~life.page.mounted => life.page.listeners = 0

C30_Witness ==
    /\ note.withAnon
    /\ last.handler = "startListener" /\ last.alerts = 0
    /\ life.page.cancelled /\ life.page.anon = "done"
    /\ life.page.registered = 0

====
